---- MODULE Spec2Model ----
(***************************************************************************)
(* AURA Diagnostics: the orchestration engine of backend/src/workflow.py.  *)
(* OrchestratorWorkflow.run is modelled as a state machine over the        *)
(* DiagnosticState record; the query builder and the triage extraction     *)
(* are operators over Python values.                                       *)
(*                                                                         *)
(* A Python value is a tagged record [t |-> <type>, v |-> <payload>].      *)
(* A Python str is a sequence of symbols: one-character strings wherever   *)
(* the code looks at characters, and opaque symbols for text the core      *)
(* never looks inside.                                                     *)
(***************************************************************************)
EXTENDS Integers, Sequences, FiniteSets, TLC

\* ----------------------------------------------------------------- bounds
\* Largest number of items one search backend returns in the model.
MaxResults == 2
\* Largest number of parts a generated report text is made of.
MaxParts == 3
\* Largest number of symptoms handed to the query builder on its own.
MaxSymptoms == 3
\* Largest number of parts a qualifier handed to the matcher is made of.
MaxWords == 2
\* Largest number of rows of table audit_log.
MaxRows == 3

\* ---------------------------------------------------------- Python values
PyNone == [t |-> "None"]
PyStr(s) == [t |-> "str", v |-> s]
PyList(s) == [t |-> "list", v |-> s]
\* A dict is its items <<key, value>> in insertion order, the keys being
\* distinct strings (of characters, as the value of a str).
PyDict(items) == [t |-> "dict", v |-> items]
PyBytes(s) == [t |-> "bytes", v |-> s]
PyInt(n) == [t |-> "int", v |-> n]
EmptyDict == PyDict(<<>>)
EmptyList == PyList(<<>>)
\* An exception travelling instead of a value.
Raise(exc) == [t |-> "raise", exc |-> exc]

\* bool(x) of a Python value.
Truthy(x) ==
  CASE x.t = "None" -> FALSE
    [] x.t = "int" -> x.v # 0
    [] OTHER -> x.v # <<>>

\* The characters of the keys the code reads and writes in its dicts.
Key(name) ==
  CASE name = "symptoms" -> <<"s","y","m","p","t","o","m","s">>
    [] name = "name" -> <<"n","a","m","e">>
    [] name = "qualifiers" -> <<"q","u","a","l","i","f","i","e","r","s">>
    [] name = "id" -> <<"i","d">>
    [] name = "age" -> <<"a","g","e">>
    [] name = "gender" -> <<"g","e","n","d","e","r">>
    [] name = "medical_history" -> <<"m","e","d","i","c","a","l","_","h","i","s","t","o","r","y">>
    [] name = "current_symptoms" -> <<"c","u","r","r","e","n","t","_","s","y","m","p","t","o","m","s">>
    [] name = "created_at" -> <<"c","r","e","a","t","e","d","_","a","t">>
    [] name = "updated_at" -> <<"u","p","d","a","t","e","d","_","a","t">>
    [] name = "source_id" -> <<"s","o","u","r","c","e","_","i","d">>
    [] name = "text" -> <<"t","e","x","t">>
    [] name = "confidence" -> <<"c","o","n","f","i","d","e","n","c","e">>
    [] name = "title" -> <<"t","i","t","l","e">>
    [] name = "abstract" -> <<"a","b","s","t","r","a","c","t">>
    [] name = "authors" -> <<"a","u","t","h","o","r","s">>
    [] name = "journal" -> <<"j","o","u","r","n","a","l">>
    [] name = "publication_date" -> <<"p","u","b","l","i","c","a","t","i","o","n","_","d","a","t","e">>
    [] name = "doi" -> <<"d","o","i">>
    [] name = "openalex_id" -> <<"o","p","e","n","a","l","e","x","_","i","d">>
    [] name = "source" -> <<"s","o","u","r","c","e">>
    [] name = "url" -> <<"u","r","l">>
    [] name = "analysis" -> <<"a","n","a","l","y","s","i","s">>
    [] name = "warnings" -> <<"w","a","r","n","i","n","g","s">>
    [] name = "interaction_risk" -> <<"i","n","t","e","r","a","c","t","i","o","n","_","r","i","s","k">>
    [] name = "inconsistencies" -> <<"i","n","c","o","n","s","i","s","t","e","n","c","i","e","s">>
    [] name = "gaps" -> <<"g","a","p","s">>
    [] name = "red_flags" -> <<"r","e","d","_","f","l","a","g","s">>

\* d.keys() as a set.
DictKeys(d) == {d.v[i][1] : i \in 1..Len(d.v)}

\* d.get(k, default) of a dict.
DictGet(d, k, default) ==
  IF k \in DictKeys(d) THEN d.v[CHOOSE i \in 1..Len(d.v) : d.v[i][1] = k][2] ELSE default

\* The exception classes that occur in the model; all derive from Exception.
ExceptionClasses ==
  {"ValueError", "KeyError", "TypeError", "AttributeError", "APIError", "RuntimeError"}

\* A narrower handler: only ValueError is caught.
IsException_onlyValueError(exc) == exc = "ValueError"

\* `except Exception` / isinstance(x, Exception).
IsException(exc) == exc \in ExceptionClasses

\* --------------------------------------------------------------- strings
Str_NL == <<"\n">>
\* str.isspace() of one character, the set str.strip() removes: the ASCII
\* whitespace and separators and the Unicode spaces. A character that has no
\* form in a string (a control or non-ASCII character, and the backquote)
\* is written by its code point, "U+" and four to six hexadecimal digits.
IsSpaceChar(c) ==
  c \in {"\t", "\n", "U+000B", "\f", "\r", "U+001C", "U+001D", "U+001E", "U+001F",
         " ", "U+0085", "U+00A0", "U+1680", "U+2000", "U+2001", "U+2002",
         "U+2003", "U+2004", "U+2005", "U+2006", "U+2007", "U+2008", "U+2009",
         "U+200A", "U+2028", "U+2029", "U+202F", "U+205F", "U+3000"}

RECURSIVE LStrip(_)
LStrip(s) ==
  IF s = <<>> THEN s
  ELSE IF IsSpaceChar(Head(s)) THEN LStrip(Tail(s)) ELSE s

RECURSIVE RStrip(_)
RStrip(s) ==
  IF s = <<>> THEN s
  ELSE IF IsSpaceChar(s[Len(s)]) THEN RStrip(SubSeq(s, 1, Len(s) - 1)) ELSE s

\* str.strip()
Strip(s) == RStrip(LStrip(s))

StartsAt(s, sub, i) ==
  /\ i + Len(sub) - 1 <= Len(s)
  /\ SubSeq(s, i, i + Len(sub) - 1) = sub

\* str.find(sub) + 1: the first position of sub in s, 0 when absent.
Find(s, sub) ==
  LET hits == {i \in 1..Len(s) : StartsAt(s, sub, i)}
  IN IF hits = {} THEN 0 ELSE CHOOSE i \in hits : \A j \in hits : i <= j

\* `sub in s`
Contains(s, sub) == Find(s, sub) # 0

\* str.split(sep)
RECURSIVE Split(_, _)
Split(s, sep) ==
  LET i == Find(s, sep)
  IN IF i = 0 THEN <<s>>
     ELSE <<SubSeq(s, 1, i - 1)>> \o Split(SubSeq(s, i + Len(sep), Len(s)), sep)

\* The characters str.lower() turns into one other character, each with that
\* character, from the Unicode character database: from[k] becomes to[k].
\* (U+0130, the only character that becomes two, is in LowerChar.)
LowerTable ==
  LET from ==
        <<"A", "B", "C", "D", "E", "F", "G", "H", "I", "J", "K", "L", "M", "N", "O", "P", "Q", "R", "S", "T", "U",
           "V", "W", "X", "Y", "Z", "U+00C0", "U+00C1", "U+00C2", "U+00C3", "U+00C4", "U+00C5", "U+00C6", "U+00C7",
           "U+00C8", "U+00C9", "U+00CA", "U+00CB", "U+00CC", "U+00CD", "U+00CE", "U+00CF", "U+00D0", "U+00D1",
           "U+00D2", "U+00D3", "U+00D4", "U+00D5", "U+00D6", "U+00D8", "U+00D9", "U+00DA", "U+00DB", "U+00DC",
           "U+00DD", "U+00DE", "U+0100", "U+0102", "U+0104", "U+0106", "U+0108", "U+010A", "U+010C", "U+010E",
           "U+0110", "U+0112", "U+0114", "U+0116", "U+0118", "U+011A", "U+011C", "U+011E", "U+0120", "U+0122",
           "U+0124", "U+0126", "U+0128", "U+012A", "U+012C", "U+012E", "U+0132", "U+0134", "U+0136", "U+0139",
           "U+013B", "U+013D", "U+013F", "U+0141", "U+0143", "U+0145", "U+0147", "U+014A", "U+014C", "U+014E",
           "U+0150", "U+0152", "U+0154", "U+0156", "U+0158", "U+015A", "U+015C", "U+015E", "U+0160", "U+0162",
           "U+0164", "U+0166", "U+0168", "U+016A", "U+016C", "U+016E", "U+0170", "U+0172", "U+0174", "U+0176",
           "U+0178", "U+0179", "U+017B", "U+017D", "U+0181", "U+0182", "U+0184", "U+0186", "U+0187", "U+0189",
           "U+018A", "U+018B", "U+018E", "U+018F", "U+0190", "U+0191", "U+0193", "U+0194", "U+0196", "U+0197",
           "U+0198", "U+019C", "U+019D", "U+019F", "U+01A0", "U+01A2", "U+01A4", "U+01A6", "U+01A7", "U+01A9",
           "U+01AC", "U+01AE", "U+01AF", "U+01B1", "U+01B2", "U+01B3", "U+01B5", "U+01B7", "U+01B8", "U+01BC",
           "U+01C4", "U+01C5", "U+01C7", "U+01C8", "U+01CA", "U+01CB", "U+01CD", "U+01CF", "U+01D1", "U+01D3",
           "U+01D5", "U+01D7", "U+01D9", "U+01DB", "U+01DE", "U+01E0", "U+01E2", "U+01E4", "U+01E6", "U+01E8",
           "U+01EA", "U+01EC", "U+01EE", "U+01F1", "U+01F2", "U+01F4", "U+01F6", "U+01F7", "U+01F8", "U+01FA",
           "U+01FC", "U+01FE", "U+0200", "U+0202", "U+0204", "U+0206", "U+0208", "U+020A", "U+020C", "U+020E",
           "U+0210", "U+0212", "U+0214", "U+0216", "U+0218", "U+021A", "U+021C", "U+021E", "U+0220", "U+0222",
           "U+0224", "U+0226", "U+0228", "U+022A", "U+022C", "U+022E", "U+0230", "U+0232", "U+023A", "U+023B",
           "U+023D", "U+023E", "U+0241", "U+0243", "U+0244", "U+0245", "U+0246", "U+0248", "U+024A", "U+024C",
           "U+024E", "U+0370", "U+0372", "U+0376", "U+037F", "U+0386", "U+0388", "U+0389", "U+038A", "U+038C",
           "U+038E", "U+038F", "U+0391", "U+0392", "U+0393", "U+0394", "U+0395", "U+0396", "U+0397", "U+0398",
           "U+0399", "U+039A", "U+039B", "U+039C", "U+039D", "U+039E", "U+039F", "U+03A0", "U+03A1", "U+03A3",
           "U+03A4", "U+03A5", "U+03A6", "U+03A7", "U+03A8", "U+03A9", "U+03AA", "U+03AB", "U+03CF", "U+03D8",
           "U+03DA", "U+03DC", "U+03DE", "U+03E0", "U+03E2", "U+03E4", "U+03E6", "U+03E8", "U+03EA", "U+03EC",
           "U+03EE", "U+03F4", "U+03F7", "U+03F9", "U+03FA", "U+03FD", "U+03FE", "U+03FF", "U+0400", "U+0401",
           "U+0402", "U+0403", "U+0404", "U+0405", "U+0406", "U+0407", "U+0408", "U+0409", "U+040A", "U+040B",
           "U+040C", "U+040D", "U+040E", "U+040F", "U+0410", "U+0411", "U+0412", "U+0413", "U+0414", "U+0415",
           "U+0416", "U+0417", "U+0418", "U+0419", "U+041A", "U+041B", "U+041C", "U+041D", "U+041E", "U+041F",
           "U+0420", "U+0421", "U+0422", "U+0423", "U+0424", "U+0425", "U+0426", "U+0427", "U+0428", "U+0429",
           "U+042A", "U+042B", "U+042C", "U+042D", "U+042E", "U+042F", "U+0460", "U+0462", "U+0464", "U+0466",
           "U+0468", "U+046A", "U+046C", "U+046E", "U+0470", "U+0472", "U+0474", "U+0476", "U+0478", "U+047A",
           "U+047C", "U+047E", "U+0480", "U+048A", "U+048C", "U+048E", "U+0490", "U+0492", "U+0494", "U+0496",
           "U+0498", "U+049A", "U+049C", "U+049E", "U+04A0", "U+04A2", "U+04A4", "U+04A6", "U+04A8", "U+04AA",
           "U+04AC", "U+04AE", "U+04B0", "U+04B2", "U+04B4", "U+04B6", "U+04B8", "U+04BA", "U+04BC", "U+04BE",
           "U+04C0", "U+04C1", "U+04C3", "U+04C5", "U+04C7", "U+04C9", "U+04CB", "U+04CD", "U+04D0", "U+04D2",
           "U+04D4", "U+04D6", "U+04D8", "U+04DA", "U+04DC", "U+04DE", "U+04E0", "U+04E2", "U+04E4", "U+04E6",
           "U+04E8", "U+04EA", "U+04EC", "U+04EE", "U+04F0", "U+04F2", "U+04F4", "U+04F6", "U+04F8", "U+04FA",
           "U+04FC", "U+04FE", "U+0500", "U+0502", "U+0504", "U+0506", "U+0508", "U+050A", "U+050C", "U+050E",
           "U+0510", "U+0512", "U+0514", "U+0516", "U+0518", "U+051A", "U+051C", "U+051E", "U+0520", "U+0522",
           "U+0524", "U+0526", "U+0528", "U+052A", "U+052C", "U+052E", "U+0531", "U+0532", "U+0533", "U+0534",
           "U+0535", "U+0536", "U+0537", "U+0538", "U+0539", "U+053A", "U+053B", "U+053C", "U+053D", "U+053E",
           "U+053F", "U+0540", "U+0541", "U+0542", "U+0543", "U+0544", "U+0545", "U+0546", "U+0547", "U+0548",
           "U+0549", "U+054A", "U+054B", "U+054C", "U+054D", "U+054E", "U+054F", "U+0550", "U+0551", "U+0552",
           "U+0553", "U+0554", "U+0555", "U+0556", "U+10A0", "U+10A1", "U+10A2", "U+10A3", "U+10A4", "U+10A5",
           "U+10A6", "U+10A7", "U+10A8", "U+10A9", "U+10AA", "U+10AB", "U+10AC", "U+10AD", "U+10AE", "U+10AF",
           "U+10B0", "U+10B1", "U+10B2", "U+10B3", "U+10B4", "U+10B5", "U+10B6", "U+10B7", "U+10B8", "U+10B9",
           "U+10BA", "U+10BB", "U+10BC", "U+10BD", "U+10BE", "U+10BF", "U+10C0", "U+10C1", "U+10C2", "U+10C3",
           "U+10C4", "U+10C5", "U+10C7", "U+10CD", "U+13A0", "U+13A1", "U+13A2", "U+13A3", "U+13A4", "U+13A5",
           "U+13A6", "U+13A7", "U+13A8", "U+13A9", "U+13AA", "U+13AB", "U+13AC", "U+13AD", "U+13AE", "U+13AF",
           "U+13B0", "U+13B1", "U+13B2", "U+13B3", "U+13B4", "U+13B5", "U+13B6", "U+13B7", "U+13B8", "U+13B9",
           "U+13BA", "U+13BB", "U+13BC", "U+13BD", "U+13BE", "U+13BF", "U+13C0", "U+13C1", "U+13C2", "U+13C3",
           "U+13C4", "U+13C5", "U+13C6", "U+13C7", "U+13C8", "U+13C9", "U+13CA", "U+13CB", "U+13CC", "U+13CD",
           "U+13CE", "U+13CF", "U+13D0", "U+13D1", "U+13D2", "U+13D3", "U+13D4", "U+13D5", "U+13D6", "U+13D7",
           "U+13D8", "U+13D9", "U+13DA", "U+13DB", "U+13DC", "U+13DD", "U+13DE", "U+13DF", "U+13E0", "U+13E1",
           "U+13E2", "U+13E3", "U+13E4", "U+13E5", "U+13E6", "U+13E7", "U+13E8", "U+13E9", "U+13EA", "U+13EB",
           "U+13EC", "U+13ED", "U+13EE", "U+13EF", "U+13F0", "U+13F1", "U+13F2", "U+13F3", "U+13F4", "U+13F5",
           "U+1C90", "U+1C91", "U+1C92", "U+1C93", "U+1C94", "U+1C95", "U+1C96", "U+1C97", "U+1C98", "U+1C99",
           "U+1C9A", "U+1C9B", "U+1C9C", "U+1C9D", "U+1C9E", "U+1C9F", "U+1CA0", "U+1CA1", "U+1CA2", "U+1CA3",
           "U+1CA4", "U+1CA5", "U+1CA6", "U+1CA7", "U+1CA8", "U+1CA9", "U+1CAA", "U+1CAB", "U+1CAC", "U+1CAD",
           "U+1CAE", "U+1CAF", "U+1CB0", "U+1CB1", "U+1CB2", "U+1CB3", "U+1CB4", "U+1CB5", "U+1CB6", "U+1CB7",
           "U+1CB8", "U+1CB9", "U+1CBA", "U+1CBD", "U+1CBE", "U+1CBF", "U+1E00", "U+1E02", "U+1E04", "U+1E06",
           "U+1E08", "U+1E0A", "U+1E0C", "U+1E0E", "U+1E10", "U+1E12", "U+1E14", "U+1E16", "U+1E18", "U+1E1A",
           "U+1E1C", "U+1E1E", "U+1E20", "U+1E22", "U+1E24", "U+1E26", "U+1E28", "U+1E2A", "U+1E2C", "U+1E2E",
           "U+1E30", "U+1E32", "U+1E34", "U+1E36", "U+1E38", "U+1E3A", "U+1E3C", "U+1E3E", "U+1E40", "U+1E42",
           "U+1E44", "U+1E46", "U+1E48", "U+1E4A", "U+1E4C", "U+1E4E", "U+1E50", "U+1E52", "U+1E54", "U+1E56",
           "U+1E58", "U+1E5A", "U+1E5C", "U+1E5E", "U+1E60", "U+1E62", "U+1E64", "U+1E66", "U+1E68", "U+1E6A",
           "U+1E6C", "U+1E6E", "U+1E70", "U+1E72", "U+1E74", "U+1E76", "U+1E78", "U+1E7A", "U+1E7C", "U+1E7E",
           "U+1E80", "U+1E82", "U+1E84", "U+1E86", "U+1E88", "U+1E8A", "U+1E8C", "U+1E8E", "U+1E90", "U+1E92",
           "U+1E94", "U+1E9E", "U+1EA0", "U+1EA2", "U+1EA4", "U+1EA6", "U+1EA8", "U+1EAA", "U+1EAC", "U+1EAE",
           "U+1EB0", "U+1EB2", "U+1EB4", "U+1EB6", "U+1EB8", "U+1EBA", "U+1EBC", "U+1EBE", "U+1EC0", "U+1EC2",
           "U+1EC4", "U+1EC6", "U+1EC8", "U+1ECA", "U+1ECC", "U+1ECE", "U+1ED0", "U+1ED2", "U+1ED4", "U+1ED6",
           "U+1ED8", "U+1EDA", "U+1EDC", "U+1EDE", "U+1EE0", "U+1EE2", "U+1EE4", "U+1EE6", "U+1EE8", "U+1EEA",
           "U+1EEC", "U+1EEE", "U+1EF0", "U+1EF2", "U+1EF4", "U+1EF6", "U+1EF8", "U+1EFA", "U+1EFC", "U+1EFE",
           "U+1F08", "U+1F09", "U+1F0A", "U+1F0B", "U+1F0C", "U+1F0D", "U+1F0E", "U+1F0F", "U+1F18", "U+1F19",
           "U+1F1A", "U+1F1B", "U+1F1C", "U+1F1D", "U+1F28", "U+1F29", "U+1F2A", "U+1F2B", "U+1F2C", "U+1F2D",
           "U+1F2E", "U+1F2F", "U+1F38", "U+1F39", "U+1F3A", "U+1F3B", "U+1F3C", "U+1F3D", "U+1F3E", "U+1F3F",
           "U+1F48", "U+1F49", "U+1F4A", "U+1F4B", "U+1F4C", "U+1F4D", "U+1F59", "U+1F5B", "U+1F5D", "U+1F5F",
           "U+1F68", "U+1F69", "U+1F6A", "U+1F6B", "U+1F6C", "U+1F6D", "U+1F6E", "U+1F6F", "U+1F88", "U+1F89",
           "U+1F8A", "U+1F8B", "U+1F8C", "U+1F8D", "U+1F8E", "U+1F8F", "U+1F98", "U+1F99", "U+1F9A", "U+1F9B",
           "U+1F9C", "U+1F9D", "U+1F9E", "U+1F9F", "U+1FA8", "U+1FA9", "U+1FAA", "U+1FAB", "U+1FAC", "U+1FAD",
           "U+1FAE", "U+1FAF", "U+1FB8", "U+1FB9", "U+1FBA", "U+1FBB", "U+1FBC", "U+1FC8", "U+1FC9", "U+1FCA",
           "U+1FCB", "U+1FCC", "U+1FD8", "U+1FD9", "U+1FDA", "U+1FDB", "U+1FE8", "U+1FE9", "U+1FEA", "U+1FEB",
           "U+1FEC", "U+1FF8", "U+1FF9", "U+1FFA", "U+1FFB", "U+1FFC", "U+2126", "U+212A", "U+212B", "U+2132",
           "U+2160", "U+2161", "U+2162", "U+2163", "U+2164", "U+2165", "U+2166", "U+2167", "U+2168", "U+2169",
           "U+216A", "U+216B", "U+216C", "U+216D", "U+216E", "U+216F", "U+2183", "U+24B6", "U+24B7", "U+24B8",
           "U+24B9", "U+24BA", "U+24BB", "U+24BC", "U+24BD", "U+24BE", "U+24BF", "U+24C0", "U+24C1", "U+24C2",
           "U+24C3", "U+24C4", "U+24C5", "U+24C6", "U+24C7", "U+24C8", "U+24C9", "U+24CA", "U+24CB", "U+24CC",
           "U+24CD", "U+24CE", "U+24CF", "U+2C00", "U+2C01", "U+2C02", "U+2C03", "U+2C04", "U+2C05", "U+2C06",
           "U+2C07", "U+2C08", "U+2C09", "U+2C0A", "U+2C0B", "U+2C0C", "U+2C0D", "U+2C0E", "U+2C0F", "U+2C10",
           "U+2C11", "U+2C12", "U+2C13", "U+2C14", "U+2C15", "U+2C16", "U+2C17", "U+2C18", "U+2C19", "U+2C1A",
           "U+2C1B", "U+2C1C", "U+2C1D", "U+2C1E", "U+2C1F", "U+2C20", "U+2C21", "U+2C22", "U+2C23", "U+2C24",
           "U+2C25", "U+2C26", "U+2C27", "U+2C28", "U+2C29", "U+2C2A", "U+2C2B", "U+2C2C", "U+2C2D", "U+2C2E",
           "U+2C2F", "U+2C60", "U+2C62", "U+2C63", "U+2C64", "U+2C67", "U+2C69", "U+2C6B", "U+2C6D", "U+2C6E",
           "U+2C6F", "U+2C70", "U+2C72", "U+2C75", "U+2C7E", "U+2C7F", "U+2C80", "U+2C82", "U+2C84", "U+2C86",
           "U+2C88", "U+2C8A", "U+2C8C", "U+2C8E", "U+2C90", "U+2C92", "U+2C94", "U+2C96", "U+2C98", "U+2C9A",
           "U+2C9C", "U+2C9E", "U+2CA0", "U+2CA2", "U+2CA4", "U+2CA6", "U+2CA8", "U+2CAA", "U+2CAC", "U+2CAE",
           "U+2CB0", "U+2CB2", "U+2CB4", "U+2CB6", "U+2CB8", "U+2CBA", "U+2CBC", "U+2CBE", "U+2CC0", "U+2CC2",
           "U+2CC4", "U+2CC6", "U+2CC8", "U+2CCA", "U+2CCC", "U+2CCE", "U+2CD0", "U+2CD2", "U+2CD4", "U+2CD6",
           "U+2CD8", "U+2CDA", "U+2CDC", "U+2CDE", "U+2CE0", "U+2CE2", "U+2CEB", "U+2CED", "U+2CF2", "U+A640",
           "U+A642", "U+A644", "U+A646", "U+A648", "U+A64A", "U+A64C", "U+A64E", "U+A650", "U+A652", "U+A654",
           "U+A656", "U+A658", "U+A65A", "U+A65C", "U+A65E", "U+A660", "U+A662", "U+A664", "U+A666", "U+A668",
           "U+A66A", "U+A66C", "U+A680", "U+A682", "U+A684", "U+A686", "U+A688", "U+A68A", "U+A68C", "U+A68E",
           "U+A690", "U+A692", "U+A694", "U+A696", "U+A698", "U+A69A", "U+A722", "U+A724", "U+A726", "U+A728",
           "U+A72A", "U+A72C", "U+A72E", "U+A732", "U+A734", "U+A736", "U+A738", "U+A73A", "U+A73C", "U+A73E",
           "U+A740", "U+A742", "U+A744", "U+A746", "U+A748", "U+A74A", "U+A74C", "U+A74E", "U+A750", "U+A752",
           "U+A754", "U+A756", "U+A758", "U+A75A", "U+A75C", "U+A75E", "U+A760", "U+A762", "U+A764", "U+A766",
           "U+A768", "U+A76A", "U+A76C", "U+A76E", "U+A779", "U+A77B", "U+A77D", "U+A77E", "U+A780", "U+A782",
           "U+A784", "U+A786", "U+A78B", "U+A78D", "U+A790", "U+A792", "U+A796", "U+A798", "U+A79A", "U+A79C",
           "U+A79E", "U+A7A0", "U+A7A2", "U+A7A4", "U+A7A6", "U+A7A8", "U+A7AA", "U+A7AB", "U+A7AC", "U+A7AD",
           "U+A7AE", "U+A7B0", "U+A7B1", "U+A7B2", "U+A7B3", "U+A7B4", "U+A7B6", "U+A7B8", "U+A7BA", "U+A7BC",
           "U+A7BE", "U+A7C0", "U+A7C2", "U+A7C4", "U+A7C5", "U+A7C6", "U+A7C7", "U+A7C9", "U+A7D0", "U+A7D6",
           "U+A7D8", "U+A7F5", "U+FF21", "U+FF22", "U+FF23", "U+FF24", "U+FF25", "U+FF26", "U+FF27", "U+FF28",
           "U+FF29", "U+FF2A", "U+FF2B", "U+FF2C", "U+FF2D", "U+FF2E", "U+FF2F", "U+FF30", "U+FF31", "U+FF32",
           "U+FF33", "U+FF34", "U+FF35", "U+FF36", "U+FF37", "U+FF38", "U+FF39", "U+FF3A", "U+10400", "U+10401",
           "U+10402", "U+10403", "U+10404", "U+10405", "U+10406", "U+10407", "U+10408", "U+10409", "U+1040A",
           "U+1040B", "U+1040C", "U+1040D", "U+1040E", "U+1040F", "U+10410", "U+10411", "U+10412", "U+10413",
           "U+10414", "U+10415", "U+10416", "U+10417", "U+10418", "U+10419", "U+1041A", "U+1041B", "U+1041C",
           "U+1041D", "U+1041E", "U+1041F", "U+10420", "U+10421", "U+10422", "U+10423", "U+10424", "U+10425",
           "U+10426", "U+10427", "U+104B0", "U+104B1", "U+104B2", "U+104B3", "U+104B4", "U+104B5", "U+104B6",
           "U+104B7", "U+104B8", "U+104B9", "U+104BA", "U+104BB", "U+104BC", "U+104BD", "U+104BE", "U+104BF",
           "U+104C0", "U+104C1", "U+104C2", "U+104C3", "U+104C4", "U+104C5", "U+104C6", "U+104C7", "U+104C8",
           "U+104C9", "U+104CA", "U+104CB", "U+104CC", "U+104CD", "U+104CE", "U+104CF", "U+104D0", "U+104D1",
           "U+104D2", "U+104D3", "U+10570", "U+10571", "U+10572", "U+10573", "U+10574", "U+10575", "U+10576",
           "U+10577", "U+10578", "U+10579", "U+1057A", "U+1057C", "U+1057D", "U+1057E", "U+1057F", "U+10580",
           "U+10581", "U+10582", "U+10583", "U+10584", "U+10585", "U+10586", "U+10587", "U+10588", "U+10589",
           "U+1058A", "U+1058C", "U+1058D", "U+1058E", "U+1058F", "U+10590", "U+10591", "U+10592", "U+10594",
           "U+10595", "U+10C80", "U+10C81", "U+10C82", "U+10C83", "U+10C84", "U+10C85", "U+10C86", "U+10C87",
           "U+10C88", "U+10C89", "U+10C8A", "U+10C8B", "U+10C8C", "U+10C8D", "U+10C8E", "U+10C8F", "U+10C90",
           "U+10C91", "U+10C92", "U+10C93", "U+10C94", "U+10C95", "U+10C96", "U+10C97", "U+10C98", "U+10C99",
           "U+10C9A", "U+10C9B", "U+10C9C", "U+10C9D", "U+10C9E", "U+10C9F", "U+10CA0", "U+10CA1", "U+10CA2",
           "U+10CA3", "U+10CA4", "U+10CA5", "U+10CA6", "U+10CA7", "U+10CA8", "U+10CA9", "U+10CAA", "U+10CAB",
           "U+10CAC", "U+10CAD", "U+10CAE", "U+10CAF", "U+10CB0", "U+10CB1", "U+10CB2", "U+118A0", "U+118A1",
           "U+118A2", "U+118A3", "U+118A4", "U+118A5", "U+118A6", "U+118A7", "U+118A8", "U+118A9", "U+118AA",
           "U+118AB", "U+118AC", "U+118AD", "U+118AE", "U+118AF", "U+118B0", "U+118B1", "U+118B2", "U+118B3",
           "U+118B4", "U+118B5", "U+118B6", "U+118B7", "U+118B8", "U+118B9", "U+118BA", "U+118BB", "U+118BC",
           "U+118BD", "U+118BE", "U+118BF", "U+16E40", "U+16E41", "U+16E42", "U+16E43", "U+16E44", "U+16E45",
           "U+16E46", "U+16E47", "U+16E48", "U+16E49", "U+16E4A", "U+16E4B", "U+16E4C", "U+16E4D", "U+16E4E",
           "U+16E4F", "U+16E50", "U+16E51", "U+16E52", "U+16E53", "U+16E54", "U+16E55", "U+16E56", "U+16E57",
           "U+16E58", "U+16E59", "U+16E5A", "U+16E5B", "U+16E5C", "U+16E5D", "U+16E5E", "U+16E5F", "U+1E900",
           "U+1E901", "U+1E902", "U+1E903", "U+1E904", "U+1E905", "U+1E906", "U+1E907", "U+1E908", "U+1E909",
           "U+1E90A", "U+1E90B", "U+1E90C", "U+1E90D", "U+1E90E", "U+1E90F", "U+1E910", "U+1E911", "U+1E912",
           "U+1E913", "U+1E914", "U+1E915", "U+1E916", "U+1E917", "U+1E918", "U+1E919", "U+1E91A", "U+1E91B",
           "U+1E91C", "U+1E91D", "U+1E91E", "U+1E91F", "U+1E920", "U+1E921">>
      to ==
        <<"a", "b", "c", "d", "e", "f", "g", "h", "i", "j", "k", "l", "m", "n", "o", "p", "q", "r", "s", "t", "u", "v",
         "w", "x", "y", "z", "U+00E0", "U+00E1", "U+00E2", "U+00E3", "U+00E4", "U+00E5", "U+00E6", "U+00E7", "U+00E8",
         "U+00E9", "U+00EA", "U+00EB", "U+00EC", "U+00ED", "U+00EE", "U+00EF", "U+00F0", "U+00F1", "U+00F2", "U+00F3",
         "U+00F4", "U+00F5", "U+00F6", "U+00F8", "U+00F9", "U+00FA", "U+00FB", "U+00FC", "U+00FD", "U+00FE", "U+0101",
         "U+0103", "U+0105", "U+0107", "U+0109", "U+010B", "U+010D", "U+010F", "U+0111", "U+0113", "U+0115", "U+0117",
         "U+0119", "U+011B", "U+011D", "U+011F", "U+0121", "U+0123", "U+0125", "U+0127", "U+0129", "U+012B", "U+012D",
         "U+012F", "U+0133", "U+0135", "U+0137", "U+013A", "U+013C", "U+013E", "U+0140", "U+0142", "U+0144", "U+0146",
         "U+0148", "U+014B", "U+014D", "U+014F", "U+0151", "U+0153", "U+0155", "U+0157", "U+0159", "U+015B", "U+015D",
         "U+015F", "U+0161", "U+0163", "U+0165", "U+0167", "U+0169", "U+016B", "U+016D", "U+016F", "U+0171", "U+0173",
         "U+0175", "U+0177", "U+00FF", "U+017A", "U+017C", "U+017E", "U+0253", "U+0183", "U+0185", "U+0254", "U+0188",
         "U+0256", "U+0257", "U+018C", "U+01DD", "U+0259", "U+025B", "U+0192", "U+0260", "U+0263", "U+0269", "U+0268",
         "U+0199", "U+026F", "U+0272", "U+0275", "U+01A1", "U+01A3", "U+01A5", "U+0280", "U+01A8", "U+0283", "U+01AD",
         "U+0288", "U+01B0", "U+028A", "U+028B", "U+01B4", "U+01B6", "U+0292", "U+01B9", "U+01BD", "U+01C6", "U+01C6",
         "U+01C9", "U+01C9", "U+01CC", "U+01CC", "U+01CE", "U+01D0", "U+01D2", "U+01D4", "U+01D6", "U+01D8", "U+01DA",
         "U+01DC", "U+01DF", "U+01E1", "U+01E3", "U+01E5", "U+01E7", "U+01E9", "U+01EB", "U+01ED", "U+01EF", "U+01F3",
         "U+01F3", "U+01F5", "U+0195", "U+01BF", "U+01F9", "U+01FB", "U+01FD", "U+01FF", "U+0201", "U+0203", "U+0205",
         "U+0207", "U+0209", "U+020B", "U+020D", "U+020F", "U+0211", "U+0213", "U+0215", "U+0217", "U+0219", "U+021B",
         "U+021D", "U+021F", "U+019E", "U+0223", "U+0225", "U+0227", "U+0229", "U+022B", "U+022D", "U+022F", "U+0231",
         "U+0233", "U+2C65", "U+023C", "U+019A", "U+2C66", "U+0242", "U+0180", "U+0289", "U+028C", "U+0247", "U+0249",
         "U+024B", "U+024D", "U+024F", "U+0371", "U+0373", "U+0377", "U+03F3", "U+03AC", "U+03AD", "U+03AE", "U+03AF",
         "U+03CC", "U+03CD", "U+03CE", "U+03B1", "U+03B2", "U+03B3", "U+03B4", "U+03B5", "U+03B6", "U+03B7", "U+03B8",
         "U+03B9", "U+03BA", "U+03BB", "U+03BC", "U+03BD", "U+03BE", "U+03BF", "U+03C0", "U+03C1", "U+03C3", "U+03C4",
         "U+03C5", "U+03C6", "U+03C7", "U+03C8", "U+03C9", "U+03CA", "U+03CB", "U+03D7", "U+03D9", "U+03DB", "U+03DD",
         "U+03DF", "U+03E1", "U+03E3", "U+03E5", "U+03E7", "U+03E9", "U+03EB", "U+03ED", "U+03EF", "U+03B8", "U+03F8",
         "U+03F2", "U+03FB", "U+037B", "U+037C", "U+037D", "U+0450", "U+0451", "U+0452", "U+0453", "U+0454", "U+0455",
         "U+0456", "U+0457", "U+0458", "U+0459", "U+045A", "U+045B", "U+045C", "U+045D", "U+045E", "U+045F", "U+0430",
         "U+0431", "U+0432", "U+0433", "U+0434", "U+0435", "U+0436", "U+0437", "U+0438", "U+0439", "U+043A", "U+043B",
         "U+043C", "U+043D", "U+043E", "U+043F", "U+0440", "U+0441", "U+0442", "U+0443", "U+0444", "U+0445", "U+0446",
         "U+0447", "U+0448", "U+0449", "U+044A", "U+044B", "U+044C", "U+044D", "U+044E", "U+044F", "U+0461", "U+0463",
         "U+0465", "U+0467", "U+0469", "U+046B", "U+046D", "U+046F", "U+0471", "U+0473", "U+0475", "U+0477", "U+0479",
         "U+047B", "U+047D", "U+047F", "U+0481", "U+048B", "U+048D", "U+048F", "U+0491", "U+0493", "U+0495", "U+0497",
         "U+0499", "U+049B", "U+049D", "U+049F", "U+04A1", "U+04A3", "U+04A5", "U+04A7", "U+04A9", "U+04AB", "U+04AD",
         "U+04AF", "U+04B1", "U+04B3", "U+04B5", "U+04B7", "U+04B9", "U+04BB", "U+04BD", "U+04BF", "U+04CF", "U+04C2",
         "U+04C4", "U+04C6", "U+04C8", "U+04CA", "U+04CC", "U+04CE", "U+04D1", "U+04D3", "U+04D5", "U+04D7", "U+04D9",
         "U+04DB", "U+04DD", "U+04DF", "U+04E1", "U+04E3", "U+04E5", "U+04E7", "U+04E9", "U+04EB", "U+04ED", "U+04EF",
         "U+04F1", "U+04F3", "U+04F5", "U+04F7", "U+04F9", "U+04FB", "U+04FD", "U+04FF", "U+0501", "U+0503", "U+0505",
         "U+0507", "U+0509", "U+050B", "U+050D", "U+050F", "U+0511", "U+0513", "U+0515", "U+0517", "U+0519", "U+051B",
         "U+051D", "U+051F", "U+0521", "U+0523", "U+0525", "U+0527", "U+0529", "U+052B", "U+052D", "U+052F", "U+0561",
         "U+0562", "U+0563", "U+0564", "U+0565", "U+0566", "U+0567", "U+0568", "U+0569", "U+056A", "U+056B", "U+056C",
         "U+056D", "U+056E", "U+056F", "U+0570", "U+0571", "U+0572", "U+0573", "U+0574", "U+0575", "U+0576", "U+0577",
         "U+0578", "U+0579", "U+057A", "U+057B", "U+057C", "U+057D", "U+057E", "U+057F", "U+0580", "U+0581", "U+0582",
         "U+0583", "U+0584", "U+0585", "U+0586", "U+2D00", "U+2D01", "U+2D02", "U+2D03", "U+2D04", "U+2D05", "U+2D06",
         "U+2D07", "U+2D08", "U+2D09", "U+2D0A", "U+2D0B", "U+2D0C", "U+2D0D", "U+2D0E", "U+2D0F", "U+2D10", "U+2D11",
         "U+2D12", "U+2D13", "U+2D14", "U+2D15", "U+2D16", "U+2D17", "U+2D18", "U+2D19", "U+2D1A", "U+2D1B", "U+2D1C",
         "U+2D1D", "U+2D1E", "U+2D1F", "U+2D20", "U+2D21", "U+2D22", "U+2D23", "U+2D24", "U+2D25", "U+2D27", "U+2D2D",
         "U+AB70", "U+AB71", "U+AB72", "U+AB73", "U+AB74", "U+AB75", "U+AB76", "U+AB77", "U+AB78", "U+AB79", "U+AB7A",
         "U+AB7B", "U+AB7C", "U+AB7D", "U+AB7E", "U+AB7F", "U+AB80", "U+AB81", "U+AB82", "U+AB83", "U+AB84", "U+AB85",
         "U+AB86", "U+AB87", "U+AB88", "U+AB89", "U+AB8A", "U+AB8B", "U+AB8C", "U+AB8D", "U+AB8E", "U+AB8F", "U+AB90",
         "U+AB91", "U+AB92", "U+AB93", "U+AB94", "U+AB95", "U+AB96", "U+AB97", "U+AB98", "U+AB99", "U+AB9A", "U+AB9B",
         "U+AB9C", "U+AB9D", "U+AB9E", "U+AB9F", "U+ABA0", "U+ABA1", "U+ABA2", "U+ABA3", "U+ABA4", "U+ABA5", "U+ABA6",
         "U+ABA7", "U+ABA8", "U+ABA9", "U+ABAA", "U+ABAB", "U+ABAC", "U+ABAD", "U+ABAE", "U+ABAF", "U+ABB0", "U+ABB1",
         "U+ABB2", "U+ABB3", "U+ABB4", "U+ABB5", "U+ABB6", "U+ABB7", "U+ABB8", "U+ABB9", "U+ABBA", "U+ABBB", "U+ABBC",
         "U+ABBD", "U+ABBE", "U+ABBF", "U+13F8", "U+13F9", "U+13FA", "U+13FB", "U+13FC", "U+13FD", "U+10D0", "U+10D1",
         "U+10D2", "U+10D3", "U+10D4", "U+10D5", "U+10D6", "U+10D7", "U+10D8", "U+10D9", "U+10DA", "U+10DB", "U+10DC",
         "U+10DD", "U+10DE", "U+10DF", "U+10E0", "U+10E1", "U+10E2", "U+10E3", "U+10E4", "U+10E5", "U+10E6", "U+10E7",
         "U+10E8", "U+10E9", "U+10EA", "U+10EB", "U+10EC", "U+10ED", "U+10EE", "U+10EF", "U+10F0", "U+10F1", "U+10F2",
         "U+10F3", "U+10F4", "U+10F5", "U+10F6", "U+10F7", "U+10F8", "U+10F9", "U+10FA", "U+10FD", "U+10FE", "U+10FF",
         "U+1E01", "U+1E03", "U+1E05", "U+1E07", "U+1E09", "U+1E0B", "U+1E0D", "U+1E0F", "U+1E11", "U+1E13", "U+1E15",
         "U+1E17", "U+1E19", "U+1E1B", "U+1E1D", "U+1E1F", "U+1E21", "U+1E23", "U+1E25", "U+1E27", "U+1E29", "U+1E2B",
         "U+1E2D", "U+1E2F", "U+1E31", "U+1E33", "U+1E35", "U+1E37", "U+1E39", "U+1E3B", "U+1E3D", "U+1E3F", "U+1E41",
         "U+1E43", "U+1E45", "U+1E47", "U+1E49", "U+1E4B", "U+1E4D", "U+1E4F", "U+1E51", "U+1E53", "U+1E55", "U+1E57",
         "U+1E59", "U+1E5B", "U+1E5D", "U+1E5F", "U+1E61", "U+1E63", "U+1E65", "U+1E67", "U+1E69", "U+1E6B", "U+1E6D",
         "U+1E6F", "U+1E71", "U+1E73", "U+1E75", "U+1E77", "U+1E79", "U+1E7B", "U+1E7D", "U+1E7F", "U+1E81", "U+1E83",
         "U+1E85", "U+1E87", "U+1E89", "U+1E8B", "U+1E8D", "U+1E8F", "U+1E91", "U+1E93", "U+1E95", "U+00DF", "U+1EA1",
         "U+1EA3", "U+1EA5", "U+1EA7", "U+1EA9", "U+1EAB", "U+1EAD", "U+1EAF", "U+1EB1", "U+1EB3", "U+1EB5", "U+1EB7",
         "U+1EB9", "U+1EBB", "U+1EBD", "U+1EBF", "U+1EC1", "U+1EC3", "U+1EC5", "U+1EC7", "U+1EC9", "U+1ECB", "U+1ECD",
         "U+1ECF", "U+1ED1", "U+1ED3", "U+1ED5", "U+1ED7", "U+1ED9", "U+1EDB", "U+1EDD", "U+1EDF", "U+1EE1", "U+1EE3",
         "U+1EE5", "U+1EE7", "U+1EE9", "U+1EEB", "U+1EED", "U+1EEF", "U+1EF1", "U+1EF3", "U+1EF5", "U+1EF7", "U+1EF9",
         "U+1EFB", "U+1EFD", "U+1EFF", "U+1F00", "U+1F01", "U+1F02", "U+1F03", "U+1F04", "U+1F05", "U+1F06", "U+1F07",
         "U+1F10", "U+1F11", "U+1F12", "U+1F13", "U+1F14", "U+1F15", "U+1F20", "U+1F21", "U+1F22", "U+1F23", "U+1F24",
         "U+1F25", "U+1F26", "U+1F27", "U+1F30", "U+1F31", "U+1F32", "U+1F33", "U+1F34", "U+1F35", "U+1F36", "U+1F37",
         "U+1F40", "U+1F41", "U+1F42", "U+1F43", "U+1F44", "U+1F45", "U+1F51", "U+1F53", "U+1F55", "U+1F57", "U+1F60",
         "U+1F61", "U+1F62", "U+1F63", "U+1F64", "U+1F65", "U+1F66", "U+1F67", "U+1F80", "U+1F81", "U+1F82", "U+1F83",
         "U+1F84", "U+1F85", "U+1F86", "U+1F87", "U+1F90", "U+1F91", "U+1F92", "U+1F93", "U+1F94", "U+1F95", "U+1F96",
         "U+1F97", "U+1FA0", "U+1FA1", "U+1FA2", "U+1FA3", "U+1FA4", "U+1FA5", "U+1FA6", "U+1FA7", "U+1FB0", "U+1FB1",
         "U+1F70", "U+1F71", "U+1FB3", "U+1F72", "U+1F73", "U+1F74", "U+1F75", "U+1FC3", "U+1FD0", "U+1FD1", "U+1F76",
         "U+1F77", "U+1FE0", "U+1FE1", "U+1F7A", "U+1F7B", "U+1FE5", "U+1F78", "U+1F79", "U+1F7C", "U+1F7D", "U+1FF3",
         "U+03C9", "k", "U+00E5", "U+214E", "U+2170", "U+2171", "U+2172", "U+2173", "U+2174", "U+2175", "U+2176",
         "U+2177", "U+2178", "U+2179", "U+217A", "U+217B", "U+217C", "U+217D", "U+217E", "U+217F", "U+2184", "U+24D0",
         "U+24D1", "U+24D2", "U+24D3", "U+24D4", "U+24D5", "U+24D6", "U+24D7", "U+24D8", "U+24D9", "U+24DA", "U+24DB",
         "U+24DC", "U+24DD", "U+24DE", "U+24DF", "U+24E0", "U+24E1", "U+24E2", "U+24E3", "U+24E4", "U+24E5", "U+24E6",
         "U+24E7", "U+24E8", "U+24E9", "U+2C30", "U+2C31", "U+2C32", "U+2C33", "U+2C34", "U+2C35", "U+2C36", "U+2C37",
         "U+2C38", "U+2C39", "U+2C3A", "U+2C3B", "U+2C3C", "U+2C3D", "U+2C3E", "U+2C3F", "U+2C40", "U+2C41", "U+2C42",
         "U+2C43", "U+2C44", "U+2C45", "U+2C46", "U+2C47", "U+2C48", "U+2C49", "U+2C4A", "U+2C4B", "U+2C4C", "U+2C4D",
         "U+2C4E", "U+2C4F", "U+2C50", "U+2C51", "U+2C52", "U+2C53", "U+2C54", "U+2C55", "U+2C56", "U+2C57", "U+2C58",
         "U+2C59", "U+2C5A", "U+2C5B", "U+2C5C", "U+2C5D", "U+2C5E", "U+2C5F", "U+2C61", "U+026B", "U+1D7D", "U+027D",
         "U+2C68", "U+2C6A", "U+2C6C", "U+0251", "U+0271", "U+0250", "U+0252", "U+2C73", "U+2C76", "U+023F", "U+0240",
         "U+2C81", "U+2C83", "U+2C85", "U+2C87", "U+2C89", "U+2C8B", "U+2C8D", "U+2C8F", "U+2C91", "U+2C93", "U+2C95",
         "U+2C97", "U+2C99", "U+2C9B", "U+2C9D", "U+2C9F", "U+2CA1", "U+2CA3", "U+2CA5", "U+2CA7", "U+2CA9", "U+2CAB",
         "U+2CAD", "U+2CAF", "U+2CB1", "U+2CB3", "U+2CB5", "U+2CB7", "U+2CB9", "U+2CBB", "U+2CBD", "U+2CBF", "U+2CC1",
         "U+2CC3", "U+2CC5", "U+2CC7", "U+2CC9", "U+2CCB", "U+2CCD", "U+2CCF", "U+2CD1", "U+2CD3", "U+2CD5", "U+2CD7",
         "U+2CD9", "U+2CDB", "U+2CDD", "U+2CDF", "U+2CE1", "U+2CE3", "U+2CEC", "U+2CEE", "U+2CF3", "U+A641", "U+A643",
         "U+A645", "U+A647", "U+A649", "U+A64B", "U+A64D", "U+A64F", "U+A651", "U+A653", "U+A655", "U+A657", "U+A659",
         "U+A65B", "U+A65D", "U+A65F", "U+A661", "U+A663", "U+A665", "U+A667", "U+A669", "U+A66B", "U+A66D", "U+A681",
         "U+A683", "U+A685", "U+A687", "U+A689", "U+A68B", "U+A68D", "U+A68F", "U+A691", "U+A693", "U+A695", "U+A697",
         "U+A699", "U+A69B", "U+A723", "U+A725", "U+A727", "U+A729", "U+A72B", "U+A72D", "U+A72F", "U+A733", "U+A735",
         "U+A737", "U+A739", "U+A73B", "U+A73D", "U+A73F", "U+A741", "U+A743", "U+A745", "U+A747", "U+A749", "U+A74B",
         "U+A74D", "U+A74F", "U+A751", "U+A753", "U+A755", "U+A757", "U+A759", "U+A75B", "U+A75D", "U+A75F", "U+A761",
         "U+A763", "U+A765", "U+A767", "U+A769", "U+A76B", "U+A76D", "U+A76F", "U+A77A", "U+A77C", "U+1D79", "U+A77F",
         "U+A781", "U+A783", "U+A785", "U+A787", "U+A78C", "U+0265", "U+A791", "U+A793", "U+A797", "U+A799", "U+A79B",
         "U+A79D", "U+A79F", "U+A7A1", "U+A7A3", "U+A7A5", "U+A7A7", "U+A7A9", "U+0266", "U+025C", "U+0261", "U+026C",
         "U+026A", "U+029E", "U+0287", "U+029D", "U+AB53", "U+A7B5", "U+A7B7", "U+A7B9", "U+A7BB", "U+A7BD", "U+A7BF",
         "U+A7C1", "U+A7C3", "U+A794", "U+0282", "U+1D8E", "U+A7C8", "U+A7CA", "U+A7D1", "U+A7D7", "U+A7D9", "U+A7F6",
         "U+FF41", "U+FF42", "U+FF43", "U+FF44", "U+FF45", "U+FF46", "U+FF47", "U+FF48", "U+FF49", "U+FF4A", "U+FF4B",
         "U+FF4C", "U+FF4D", "U+FF4E", "U+FF4F", "U+FF50", "U+FF51", "U+FF52", "U+FF53", "U+FF54", "U+FF55", "U+FF56",
         "U+FF57", "U+FF58", "U+FF59", "U+FF5A", "U+10428", "U+10429", "U+1042A", "U+1042B", "U+1042C", "U+1042D",
         "U+1042E", "U+1042F", "U+10430", "U+10431", "U+10432", "U+10433", "U+10434", "U+10435", "U+10436", "U+10437",
         "U+10438", "U+10439", "U+1043A", "U+1043B", "U+1043C", "U+1043D", "U+1043E", "U+1043F", "U+10440", "U+10441",
         "U+10442", "U+10443", "U+10444", "U+10445", "U+10446", "U+10447", "U+10448", "U+10449", "U+1044A", "U+1044B",
         "U+1044C", "U+1044D", "U+1044E", "U+1044F", "U+104D8", "U+104D9", "U+104DA", "U+104DB", "U+104DC", "U+104DD",
         "U+104DE", "U+104DF", "U+104E0", "U+104E1", "U+104E2", "U+104E3", "U+104E4", "U+104E5", "U+104E6", "U+104E7",
         "U+104E8", "U+104E9", "U+104EA", "U+104EB", "U+104EC", "U+104ED", "U+104EE", "U+104EF", "U+104F0", "U+104F1",
         "U+104F2", "U+104F3", "U+104F4", "U+104F5", "U+104F6", "U+104F7", "U+104F8", "U+104F9", "U+104FA", "U+104FB",
         "U+10597", "U+10598", "U+10599", "U+1059A", "U+1059B", "U+1059C", "U+1059D", "U+1059E", "U+1059F", "U+105A0",
         "U+105A1", "U+105A3", "U+105A4", "U+105A5", "U+105A6", "U+105A7", "U+105A8", "U+105A9", "U+105AA", "U+105AB",
         "U+105AC", "U+105AD", "U+105AE", "U+105AF", "U+105B0", "U+105B1", "U+105B3", "U+105B4", "U+105B5", "U+105B6",
         "U+105B7", "U+105B8", "U+105B9", "U+105BB", "U+105BC", "U+10CC0", "U+10CC1", "U+10CC2", "U+10CC3", "U+10CC4",
         "U+10CC5", "U+10CC6", "U+10CC7", "U+10CC8", "U+10CC9", "U+10CCA", "U+10CCB", "U+10CCC", "U+10CCD", "U+10CCE",
         "U+10CCF", "U+10CD0", "U+10CD1", "U+10CD2", "U+10CD3", "U+10CD4", "U+10CD5", "U+10CD6", "U+10CD7", "U+10CD8",
         "U+10CD9", "U+10CDA", "U+10CDB", "U+10CDC", "U+10CDD", "U+10CDE", "U+10CDF", "U+10CE0", "U+10CE1", "U+10CE2",
         "U+10CE3", "U+10CE4", "U+10CE5", "U+10CE6", "U+10CE7", "U+10CE8", "U+10CE9", "U+10CEA", "U+10CEB", "U+10CEC",
         "U+10CED", "U+10CEE", "U+10CEF", "U+10CF0", "U+10CF1", "U+10CF2", "U+118C0", "U+118C1", "U+118C2", "U+118C3",
         "U+118C4", "U+118C5", "U+118C6", "U+118C7", "U+118C8", "U+118C9", "U+118CA", "U+118CB", "U+118CC", "U+118CD",
         "U+118CE", "U+118CF", "U+118D0", "U+118D1", "U+118D2", "U+118D3", "U+118D4", "U+118D5", "U+118D6", "U+118D7",
         "U+118D8", "U+118D9", "U+118DA", "U+118DB", "U+118DC", "U+118DD", "U+118DE", "U+118DF", "U+16E60", "U+16E61",
         "U+16E62", "U+16E63", "U+16E64", "U+16E65", "U+16E66", "U+16E67", "U+16E68", "U+16E69", "U+16E6A", "U+16E6B",
         "U+16E6C", "U+16E6D", "U+16E6E", "U+16E6F", "U+16E70", "U+16E71", "U+16E72", "U+16E73", "U+16E74", "U+16E75",
         "U+16E76", "U+16E77", "U+16E78", "U+16E79", "U+16E7A", "U+16E7B", "U+16E7C", "U+16E7D", "U+16E7E", "U+16E7F",
         "U+1E922", "U+1E923", "U+1E924", "U+1E925", "U+1E926", "U+1E927", "U+1E928", "U+1E929", "U+1E92A", "U+1E92B",
         "U+1E92C", "U+1E92D", "U+1E92E", "U+1E92F", "U+1E930", "U+1E931", "U+1E932", "U+1E933", "U+1E934", "U+1E935",
         "U+1E936", "U+1E937", "U+1E938", "U+1E939", "U+1E93A", "U+1E93B", "U+1E93C", "U+1E93D", "U+1E93E", "U+1E93F",
         "U+1E940", "U+1E941", "U+1E942", "U+1E943">>
  IN [c \in {from[k] : k \in 1..Len(from)} |-> to[CHOOSE k \in 1..Len(from) : from[k] = c]]

Cased ==
  {"A", "B", "C", "D", "E", "F", "G", "H", "I", "J", "K", "L", "M", "N", "O", "P", "Q", "R", "S", "T", "U", "V", "W",
   "X", "Y", "Z", "a", "b", "c", "d", "e", "f", "g", "h", "i", "j", "k", "l", "m", "n", "o", "p", "q", "r", "s", "t",
   "u", "v", "w", "x", "y", "z", "U+00AA", "U+00B5", "U+00BA", "U+00C0", "U+00C1", "U+00C2", "U+00C3", "U+00C4",
   "U+00C5", "U+00C6", "U+00C7", "U+00C8", "U+00C9", "U+00CA", "U+00CB", "U+00CC", "U+00CD", "U+00CE", "U+00CF",
   "U+00D0", "U+00D1", "U+00D2", "U+00D3", "U+00D4", "U+00D5", "U+00D6", "U+00D8", "U+00D9", "U+00DA", "U+00DB",
   "U+00DC", "U+00DD", "U+00DE", "U+00DF", "U+00E0", "U+00E1", "U+00E2", "U+00E3", "U+00E4", "U+00E5", "U+00E6",
   "U+00E7", "U+00E8", "U+00E9", "U+00EA", "U+00EB", "U+00EC", "U+00ED", "U+00EE", "U+00EF", "U+00F0", "U+00F1",
   "U+00F2", "U+00F3", "U+00F4", "U+00F5", "U+00F6", "U+00F8", "U+00F9", "U+00FA", "U+00FB", "U+00FC", "U+00FD",
   "U+00FE", "U+00FF", "U+0100", "U+0101", "U+0102", "U+0103", "U+0104", "U+0105", "U+0106", "U+0107", "U+0108",
   "U+0109", "U+010A", "U+010B", "U+010C", "U+010D", "U+010E", "U+010F", "U+0110", "U+0111", "U+0112", "U+0113",
   "U+0114", "U+0115", "U+0116", "U+0117", "U+0118", "U+0119", "U+011A", "U+011B", "U+011C", "U+011D", "U+011E",
   "U+011F", "U+0120", "U+0121", "U+0122", "U+0123", "U+0124", "U+0125", "U+0126", "U+0127", "U+0128", "U+0129",
   "U+012A", "U+012B", "U+012C", "U+012D", "U+012E", "U+012F", "U+0130", "U+0131", "U+0132", "U+0133", "U+0134",
   "U+0135", "U+0136", "U+0137", "U+0138", "U+0139", "U+013A", "U+013B", "U+013C", "U+013D", "U+013E", "U+013F",
   "U+0140", "U+0141", "U+0142", "U+0143", "U+0144", "U+0145", "U+0146", "U+0147", "U+0148", "U+0149", "U+014A",
   "U+014B", "U+014C", "U+014D", "U+014E", "U+014F", "U+0150", "U+0151", "U+0152", "U+0153", "U+0154", "U+0155",
   "U+0156", "U+0157", "U+0158", "U+0159", "U+015A", "U+015B", "U+015C", "U+015D", "U+015E", "U+015F", "U+0160",
   "U+0161", "U+0162", "U+0163", "U+0164", "U+0165", "U+0166", "U+0167", "U+0168", "U+0169", "U+016A", "U+016B",
   "U+016C", "U+016D", "U+016E", "U+016F", "U+0170", "U+0171", "U+0172", "U+0173", "U+0174", "U+0175", "U+0176",
   "U+0177", "U+0178", "U+0179", "U+017A", "U+017B", "U+017C", "U+017D", "U+017E", "U+017F", "U+0180", "U+0181",
   "U+0182", "U+0183", "U+0184", "U+0185", "U+0186", "U+0187", "U+0188", "U+0189", "U+018A", "U+018B", "U+018C",
   "U+018D", "U+018E", "U+018F", "U+0190", "U+0191", "U+0192", "U+0193", "U+0194", "U+0195", "U+0196", "U+0197",
   "U+0198", "U+0199", "U+019A", "U+019B", "U+019C", "U+019D", "U+019E", "U+019F", "U+01A0", "U+01A1", "U+01A2",
   "U+01A3", "U+01A4", "U+01A5", "U+01A6", "U+01A7", "U+01A8", "U+01A9", "U+01AA", "U+01AB", "U+01AC", "U+01AD",
   "U+01AE", "U+01AF", "U+01B0", "U+01B1", "U+01B2", "U+01B3", "U+01B4", "U+01B5", "U+01B6", "U+01B7", "U+01B8",
   "U+01B9", "U+01BA", "U+01BC", "U+01BD", "U+01BE", "U+01BF", "U+01C4", "U+01C5", "U+01C6", "U+01C7", "U+01C8",
   "U+01C9", "U+01CA", "U+01CB", "U+01CC", "U+01CD", "U+01CE", "U+01CF", "U+01D0", "U+01D1", "U+01D2", "U+01D3",
   "U+01D4", "U+01D5", "U+01D6", "U+01D7", "U+01D8", "U+01D9", "U+01DA", "U+01DB", "U+01DC", "U+01DD", "U+01DE",
   "U+01DF", "U+01E0", "U+01E1", "U+01E2", "U+01E3", "U+01E4", "U+01E5", "U+01E6", "U+01E7", "U+01E8", "U+01E9",
   "U+01EA", "U+01EB", "U+01EC", "U+01ED", "U+01EE", "U+01EF", "U+01F0", "U+01F1", "U+01F2", "U+01F3", "U+01F4",
   "U+01F5", "U+01F6", "U+01F7", "U+01F8", "U+01F9", "U+01FA", "U+01FB", "U+01FC", "U+01FD", "U+01FE", "U+01FF",
   "U+0200", "U+0201", "U+0202", "U+0203", "U+0204", "U+0205", "U+0206", "U+0207", "U+0208", "U+0209", "U+020A",
   "U+020B", "U+020C", "U+020D", "U+020E", "U+020F", "U+0210", "U+0211", "U+0212", "U+0213", "U+0214", "U+0215",
   "U+0216", "U+0217", "U+0218", "U+0219", "U+021A", "U+021B", "U+021C", "U+021D", "U+021E", "U+021F", "U+0220",
   "U+0221", "U+0222", "U+0223", "U+0224", "U+0225", "U+0226", "U+0227", "U+0228", "U+0229", "U+022A", "U+022B",
   "U+022C", "U+022D", "U+022E", "U+022F", "U+0230", "U+0231", "U+0232", "U+0233", "U+0234", "U+0235", "U+0236",
   "U+0237", "U+0238", "U+0239", "U+023A", "U+023B", "U+023C", "U+023D", "U+023E", "U+023F", "U+0240", "U+0241",
   "U+0242", "U+0243", "U+0244", "U+0245", "U+0246", "U+0247", "U+0248", "U+0249", "U+024A", "U+024B", "U+024C",
   "U+024D", "U+024E", "U+024F", "U+0250", "U+0251", "U+0252", "U+0253", "U+0254", "U+0255", "U+0256", "U+0257",
   "U+0258", "U+0259", "U+025A", "U+025B", "U+025C", "U+025D", "U+025E", "U+025F", "U+0260", "U+0261", "U+0262",
   "U+0263", "U+0264", "U+0265", "U+0266", "U+0267", "U+0268", "U+0269", "U+026A", "U+026B", "U+026C", "U+026D",
   "U+026E", "U+026F", "U+0270", "U+0271", "U+0272", "U+0273", "U+0274", "U+0275", "U+0276", "U+0277", "U+0278",
   "U+0279", "U+027A", "U+027B", "U+027C", "U+027D", "U+027E", "U+027F", "U+0280", "U+0281", "U+0282", "U+0283",
   "U+0284", "U+0285", "U+0286", "U+0287", "U+0288", "U+0289", "U+028A", "U+028B", "U+028C", "U+028D", "U+028E",
   "U+028F", "U+0290", "U+0291", "U+0292", "U+0293", "U+0295", "U+0296", "U+0297", "U+0298", "U+0299", "U+029A",
   "U+029B", "U+029C", "U+029D", "U+029E", "U+029F", "U+02A0", "U+02A1", "U+02A2", "U+02A3", "U+02A4", "U+02A5",
   "U+02A6", "U+02A7", "U+02A8", "U+02A9", "U+02AA", "U+02AB", "U+02AC", "U+02AD", "U+02AE", "U+02AF", "U+02B0",
   "U+02B1", "U+02B2", "U+02B3", "U+02B4", "U+02B5", "U+02B6", "U+02B7", "U+02B8", "U+02C0", "U+02C1", "U+02E0",
   "U+02E1", "U+02E2", "U+02E3", "U+02E4", "U+0345", "U+0370", "U+0371", "U+0372", "U+0373", "U+0376", "U+0377",
   "U+037A", "U+037B", "U+037C", "U+037D", "U+037F", "U+0386", "U+0388", "U+0389", "U+038A", "U+038C", "U+038E",
   "U+038F", "U+0390", "U+0391", "U+0392", "U+0393", "U+0394", "U+0395", "U+0396", "U+0397", "U+0398", "U+0399",
   "U+039A", "U+039B", "U+039C", "U+039D", "U+039E", "U+039F", "U+03A0", "U+03A1", "U+03A3", "U+03A4", "U+03A5",
   "U+03A6", "U+03A7", "U+03A8", "U+03A9", "U+03AA", "U+03AB", "U+03AC", "U+03AD", "U+03AE", "U+03AF", "U+03B0",
   "U+03B1", "U+03B2", "U+03B3", "U+03B4", "U+03B5", "U+03B6", "U+03B7", "U+03B8", "U+03B9", "U+03BA", "U+03BB",
   "U+03BC", "U+03BD", "U+03BE", "U+03BF", "U+03C0", "U+03C1", "U+03C2", "U+03C3", "U+03C4", "U+03C5", "U+03C6",
   "U+03C7", "U+03C8", "U+03C9", "U+03CA", "U+03CB", "U+03CC", "U+03CD", "U+03CE", "U+03CF", "U+03D0", "U+03D1",
   "U+03D2", "U+03D3", "U+03D4", "U+03D5", "U+03D6", "U+03D7", "U+03D8", "U+03D9", "U+03DA", "U+03DB", "U+03DC",
   "U+03DD", "U+03DE", "U+03DF", "U+03E0", "U+03E1", "U+03E2", "U+03E3", "U+03E4", "U+03E5", "U+03E6", "U+03E7",
   "U+03E8", "U+03E9", "U+03EA", "U+03EB", "U+03EC", "U+03ED", "U+03EE", "U+03EF", "U+03F0", "U+03F1", "U+03F2",
   "U+03F3", "U+03F4", "U+03F5", "U+03F7", "U+03F8", "U+03F9", "U+03FA", "U+03FB", "U+03FC", "U+03FD", "U+03FE",
   "U+03FF", "U+0400", "U+0401", "U+0402", "U+0403", "U+0404", "U+0405", "U+0406", "U+0407", "U+0408", "U+0409",
   "U+040A", "U+040B", "U+040C", "U+040D", "U+040E", "U+040F", "U+0410", "U+0411", "U+0412", "U+0413", "U+0414",
   "U+0415", "U+0416", "U+0417", "U+0418", "U+0419", "U+041A", "U+041B", "U+041C", "U+041D", "U+041E", "U+041F",
   "U+0420", "U+0421", "U+0422", "U+0423", "U+0424", "U+0425", "U+0426", "U+0427", "U+0428", "U+0429", "U+042A",
   "U+042B", "U+042C", "U+042D", "U+042E", "U+042F", "U+0430", "U+0431", "U+0432", "U+0433", "U+0434", "U+0435",
   "U+0436", "U+0437", "U+0438", "U+0439", "U+043A", "U+043B", "U+043C", "U+043D", "U+043E", "U+043F", "U+0440",
   "U+0441", "U+0442", "U+0443", "U+0444", "U+0445", "U+0446", "U+0447", "U+0448", "U+0449", "U+044A", "U+044B",
   "U+044C", "U+044D", "U+044E", "U+044F", "U+0450", "U+0451", "U+0452", "U+0453", "U+0454", "U+0455", "U+0456",
   "U+0457", "U+0458", "U+0459", "U+045A", "U+045B", "U+045C", "U+045D", "U+045E", "U+045F", "U+0460", "U+0461",
   "U+0462", "U+0463", "U+0464", "U+0465", "U+0466", "U+0467", "U+0468", "U+0469", "U+046A", "U+046B", "U+046C",
   "U+046D", "U+046E", "U+046F", "U+0470", "U+0471", "U+0472", "U+0473", "U+0474", "U+0475", "U+0476", "U+0477",
   "U+0478", "U+0479", "U+047A", "U+047B", "U+047C", "U+047D", "U+047E", "U+047F", "U+0480", "U+0481", "U+048A",
   "U+048B", "U+048C", "U+048D", "U+048E", "U+048F", "U+0490", "U+0491", "U+0492", "U+0493", "U+0494", "U+0495",
   "U+0496", "U+0497", "U+0498", "U+0499", "U+049A", "U+049B", "U+049C", "U+049D", "U+049E", "U+049F", "U+04A0",
   "U+04A1", "U+04A2", "U+04A3", "U+04A4", "U+04A5", "U+04A6", "U+04A7", "U+04A8", "U+04A9", "U+04AA", "U+04AB",
   "U+04AC", "U+04AD", "U+04AE", "U+04AF", "U+04B0", "U+04B1", "U+04B2", "U+04B3", "U+04B4", "U+04B5", "U+04B6",
   "U+04B7", "U+04B8", "U+04B9", "U+04BA", "U+04BB", "U+04BC", "U+04BD", "U+04BE", "U+04BF", "U+04C0", "U+04C1",
   "U+04C2", "U+04C3", "U+04C4", "U+04C5", "U+04C6", "U+04C7", "U+04C8", "U+04C9", "U+04CA", "U+04CB", "U+04CC",
   "U+04CD", "U+04CE", "U+04CF", "U+04D0", "U+04D1", "U+04D2", "U+04D3", "U+04D4", "U+04D5", "U+04D6", "U+04D7",
   "U+04D8", "U+04D9", "U+04DA", "U+04DB", "U+04DC", "U+04DD", "U+04DE", "U+04DF", "U+04E0", "U+04E1", "U+04E2",
   "U+04E3", "U+04E4", "U+04E5", "U+04E6", "U+04E7", "U+04E8", "U+04E9", "U+04EA", "U+04EB", "U+04EC", "U+04ED",
   "U+04EE", "U+04EF", "U+04F0", "U+04F1", "U+04F2", "U+04F3", "U+04F4", "U+04F5", "U+04F6", "U+04F7", "U+04F8",
   "U+04F9", "U+04FA", "U+04FB", "U+04FC", "U+04FD", "U+04FE", "U+04FF", "U+0500", "U+0501", "U+0502", "U+0503",
   "U+0504", "U+0505", "U+0506", "U+0507", "U+0508", "U+0509", "U+050A", "U+050B", "U+050C", "U+050D", "U+050E",
   "U+050F", "U+0510", "U+0511", "U+0512", "U+0513", "U+0514", "U+0515", "U+0516", "U+0517", "U+0518", "U+0519",
   "U+051A", "U+051B", "U+051C", "U+051D", "U+051E", "U+051F", "U+0520", "U+0521", "U+0522", "U+0523", "U+0524",
   "U+0525", "U+0526", "U+0527", "U+0528", "U+0529", "U+052A", "U+052B", "U+052C", "U+052D", "U+052E", "U+052F",
   "U+0531", "U+0532", "U+0533", "U+0534", "U+0535", "U+0536", "U+0537", "U+0538", "U+0539", "U+053A", "U+053B",
   "U+053C", "U+053D", "U+053E", "U+053F", "U+0540", "U+0541", "U+0542", "U+0543", "U+0544", "U+0545", "U+0546",
   "U+0547", "U+0548", "U+0549", "U+054A", "U+054B", "U+054C", "U+054D", "U+054E", "U+054F", "U+0550", "U+0551",
   "U+0552", "U+0553", "U+0554", "U+0555", "U+0556", "U+0560", "U+0561", "U+0562", "U+0563", "U+0564", "U+0565",
   "U+0566", "U+0567", "U+0568", "U+0569", "U+056A", "U+056B", "U+056C", "U+056D", "U+056E", "U+056F", "U+0570",
   "U+0571", "U+0572", "U+0573", "U+0574", "U+0575", "U+0576", "U+0577", "U+0578", "U+0579", "U+057A", "U+057B",
   "U+057C", "U+057D", "U+057E", "U+057F", "U+0580", "U+0581", "U+0582", "U+0583", "U+0584", "U+0585", "U+0586",
   "U+0587", "U+0588", "U+10A0", "U+10A1", "U+10A2", "U+10A3", "U+10A4", "U+10A5", "U+10A6", "U+10A7", "U+10A8",
   "U+10A9", "U+10AA", "U+10AB", "U+10AC", "U+10AD", "U+10AE", "U+10AF", "U+10B0", "U+10B1", "U+10B2", "U+10B3",
   "U+10B4", "U+10B5", "U+10B6", "U+10B7", "U+10B8", "U+10B9", "U+10BA", "U+10BB", "U+10BC", "U+10BD", "U+10BE",
   "U+10BF", "U+10C0", "U+10C1", "U+10C2", "U+10C3", "U+10C4", "U+10C5", "U+10C7", "U+10CD", "U+10D0", "U+10D1",
   "U+10D2", "U+10D3", "U+10D4", "U+10D5", "U+10D6", "U+10D7", "U+10D8", "U+10D9", "U+10DA", "U+10DB", "U+10DC",
   "U+10DD", "U+10DE", "U+10DF", "U+10E0", "U+10E1", "U+10E2", "U+10E3", "U+10E4", "U+10E5", "U+10E6", "U+10E7",
   "U+10E8", "U+10E9", "U+10EA", "U+10EB", "U+10EC", "U+10ED", "U+10EE", "U+10EF", "U+10F0", "U+10F1", "U+10F2",
   "U+10F3", "U+10F4", "U+10F5", "U+10F6", "U+10F7", "U+10F8", "U+10F9", "U+10FA", "U+10FD", "U+10FE", "U+10FF",
   "U+13A0", "U+13A1", "U+13A2", "U+13A3", "U+13A4", "U+13A5", "U+13A6", "U+13A7", "U+13A8", "U+13A9", "U+13AA",
   "U+13AB", "U+13AC", "U+13AD", "U+13AE", "U+13AF", "U+13B0", "U+13B1", "U+13B2", "U+13B3", "U+13B4", "U+13B5",
   "U+13B6", "U+13B7", "U+13B8", "U+13B9", "U+13BA", "U+13BB", "U+13BC", "U+13BD", "U+13BE", "U+13BF", "U+13C0",
   "U+13C1", "U+13C2", "U+13C3", "U+13C4", "U+13C5", "U+13C6", "U+13C7", "U+13C8", "U+13C9", "U+13CA", "U+13CB",
   "U+13CC", "U+13CD", "U+13CE", "U+13CF", "U+13D0", "U+13D1", "U+13D2", "U+13D3", "U+13D4", "U+13D5", "U+13D6",
   "U+13D7", "U+13D8", "U+13D9", "U+13DA", "U+13DB", "U+13DC", "U+13DD", "U+13DE", "U+13DF", "U+13E0", "U+13E1",
   "U+13E2", "U+13E3", "U+13E4", "U+13E5", "U+13E6", "U+13E7", "U+13E8", "U+13E9", "U+13EA", "U+13EB", "U+13EC",
   "U+13ED", "U+13EE", "U+13EF", "U+13F0", "U+13F1", "U+13F2", "U+13F3", "U+13F4", "U+13F5", "U+13F8", "U+13F9",
   "U+13FA", "U+13FB", "U+13FC", "U+13FD", "U+1C80", "U+1C81", "U+1C82", "U+1C83", "U+1C84", "U+1C85", "U+1C86",
   "U+1C87", "U+1C88", "U+1C90", "U+1C91", "U+1C92", "U+1C93", "U+1C94", "U+1C95", "U+1C96", "U+1C97", "U+1C98",
   "U+1C99", "U+1C9A", "U+1C9B", "U+1C9C", "U+1C9D", "U+1C9E", "U+1C9F", "U+1CA0", "U+1CA1", "U+1CA2", "U+1CA3",
   "U+1CA4", "U+1CA5", "U+1CA6", "U+1CA7", "U+1CA8", "U+1CA9", "U+1CAA", "U+1CAB", "U+1CAC", "U+1CAD", "U+1CAE",
   "U+1CAF", "U+1CB0", "U+1CB1", "U+1CB2", "U+1CB3", "U+1CB4", "U+1CB5", "U+1CB6", "U+1CB7", "U+1CB8", "U+1CB9",
   "U+1CBA", "U+1CBD", "U+1CBE", "U+1CBF", "U+1D00", "U+1D01", "U+1D02", "U+1D03", "U+1D04", "U+1D05", "U+1D06",
   "U+1D07", "U+1D08", "U+1D09", "U+1D0A", "U+1D0B", "U+1D0C", "U+1D0D", "U+1D0E", "U+1D0F", "U+1D10", "U+1D11",
   "U+1D12", "U+1D13", "U+1D14", "U+1D15", "U+1D16", "U+1D17", "U+1D18", "U+1D19", "U+1D1A", "U+1D1B", "U+1D1C",
   "U+1D1D", "U+1D1E", "U+1D1F", "U+1D20", "U+1D21", "U+1D22", "U+1D23", "U+1D24", "U+1D25", "U+1D26", "U+1D27",
   "U+1D28", "U+1D29", "U+1D2A", "U+1D2B", "U+1D2C", "U+1D2D", "U+1D2E", "U+1D2F", "U+1D30", "U+1D31", "U+1D32",
   "U+1D33", "U+1D34", "U+1D35", "U+1D36", "U+1D37", "U+1D38", "U+1D39", "U+1D3A", "U+1D3B", "U+1D3C", "U+1D3D",
   "U+1D3E", "U+1D3F", "U+1D40", "U+1D41", "U+1D42", "U+1D43", "U+1D44", "U+1D45", "U+1D46", "U+1D47", "U+1D48",
   "U+1D49", "U+1D4A", "U+1D4B", "U+1D4C", "U+1D4D", "U+1D4E", "U+1D4F", "U+1D50", "U+1D51", "U+1D52", "U+1D53",
   "U+1D54", "U+1D55", "U+1D56", "U+1D57", "U+1D58", "U+1D59", "U+1D5A", "U+1D5B", "U+1D5C", "U+1D5D", "U+1D5E",
   "U+1D5F", "U+1D60", "U+1D61", "U+1D62", "U+1D63", "U+1D64", "U+1D65", "U+1D66", "U+1D67", "U+1D68", "U+1D69",
   "U+1D6A", "U+1D6B", "U+1D6C", "U+1D6D", "U+1D6E", "U+1D6F", "U+1D70", "U+1D71", "U+1D72", "U+1D73", "U+1D74",
   "U+1D75", "U+1D76", "U+1D77", "U+1D78", "U+1D79", "U+1D7A", "U+1D7B", "U+1D7C", "U+1D7D", "U+1D7E", "U+1D7F",
   "U+1D80", "U+1D81", "U+1D82", "U+1D83", "U+1D84", "U+1D85", "U+1D86", "U+1D87", "U+1D88", "U+1D89", "U+1D8A",
   "U+1D8B", "U+1D8C", "U+1D8D", "U+1D8E", "U+1D8F", "U+1D90", "U+1D91", "U+1D92", "U+1D93", "U+1D94", "U+1D95",
   "U+1D96", "U+1D97", "U+1D98", "U+1D99", "U+1D9A", "U+1D9B", "U+1D9C", "U+1D9D", "U+1D9E", "U+1D9F", "U+1DA0",
   "U+1DA1", "U+1DA2", "U+1DA3", "U+1DA4", "U+1DA5", "U+1DA6", "U+1DA7", "U+1DA8", "U+1DA9", "U+1DAA", "U+1DAB",
   "U+1DAC", "U+1DAD", "U+1DAE", "U+1DAF", "U+1DB0", "U+1DB1", "U+1DB2", "U+1DB3", "U+1DB4", "U+1DB5", "U+1DB6",
   "U+1DB7", "U+1DB8", "U+1DB9", "U+1DBA", "U+1DBB", "U+1DBC", "U+1DBD", "U+1DBE", "U+1DBF", "U+1E00", "U+1E01",
   "U+1E02", "U+1E03", "U+1E04", "U+1E05", "U+1E06", "U+1E07", "U+1E08", "U+1E09", "U+1E0A", "U+1E0B", "U+1E0C",
   "U+1E0D", "U+1E0E", "U+1E0F", "U+1E10", "U+1E11", "U+1E12", "U+1E13", "U+1E14", "U+1E15", "U+1E16", "U+1E17",
   "U+1E18", "U+1E19", "U+1E1A", "U+1E1B", "U+1E1C", "U+1E1D", "U+1E1E", "U+1E1F", "U+1E20", "U+1E21", "U+1E22",
   "U+1E23", "U+1E24", "U+1E25", "U+1E26", "U+1E27", "U+1E28", "U+1E29", "U+1E2A", "U+1E2B", "U+1E2C", "U+1E2D",
   "U+1E2E", "U+1E2F", "U+1E30", "U+1E31", "U+1E32", "U+1E33", "U+1E34", "U+1E35", "U+1E36", "U+1E37", "U+1E38",
   "U+1E39", "U+1E3A", "U+1E3B", "U+1E3C", "U+1E3D", "U+1E3E", "U+1E3F", "U+1E40", "U+1E41", "U+1E42", "U+1E43",
   "U+1E44", "U+1E45", "U+1E46", "U+1E47", "U+1E48", "U+1E49", "U+1E4A", "U+1E4B", "U+1E4C", "U+1E4D", "U+1E4E",
   "U+1E4F", "U+1E50", "U+1E51", "U+1E52", "U+1E53", "U+1E54", "U+1E55", "U+1E56", "U+1E57", "U+1E58", "U+1E59",
   "U+1E5A", "U+1E5B", "U+1E5C", "U+1E5D", "U+1E5E", "U+1E5F", "U+1E60", "U+1E61", "U+1E62", "U+1E63", "U+1E64",
   "U+1E65", "U+1E66", "U+1E67", "U+1E68", "U+1E69", "U+1E6A", "U+1E6B", "U+1E6C", "U+1E6D", "U+1E6E", "U+1E6F",
   "U+1E70", "U+1E71", "U+1E72", "U+1E73", "U+1E74", "U+1E75", "U+1E76", "U+1E77", "U+1E78", "U+1E79", "U+1E7A",
   "U+1E7B", "U+1E7C", "U+1E7D", "U+1E7E", "U+1E7F", "U+1E80", "U+1E81", "U+1E82", "U+1E83", "U+1E84", "U+1E85",
   "U+1E86", "U+1E87", "U+1E88", "U+1E89", "U+1E8A", "U+1E8B", "U+1E8C", "U+1E8D", "U+1E8E", "U+1E8F", "U+1E90",
   "U+1E91", "U+1E92", "U+1E93", "U+1E94", "U+1E95", "U+1E96", "U+1E97", "U+1E98", "U+1E99", "U+1E9A", "U+1E9B",
   "U+1E9C", "U+1E9D", "U+1E9E", "U+1E9F", "U+1EA0", "U+1EA1", "U+1EA2", "U+1EA3", "U+1EA4", "U+1EA5", "U+1EA6",
   "U+1EA7", "U+1EA8", "U+1EA9", "U+1EAA", "U+1EAB", "U+1EAC", "U+1EAD", "U+1EAE", "U+1EAF", "U+1EB0", "U+1EB1",
   "U+1EB2", "U+1EB3", "U+1EB4", "U+1EB5", "U+1EB6", "U+1EB7", "U+1EB8", "U+1EB9", "U+1EBA", "U+1EBB", "U+1EBC",
   "U+1EBD", "U+1EBE", "U+1EBF", "U+1EC0", "U+1EC1", "U+1EC2", "U+1EC3", "U+1EC4", "U+1EC5", "U+1EC6", "U+1EC7",
   "U+1EC8", "U+1EC9", "U+1ECA", "U+1ECB", "U+1ECC", "U+1ECD", "U+1ECE", "U+1ECF", "U+1ED0", "U+1ED1", "U+1ED2",
   "U+1ED3", "U+1ED4", "U+1ED5", "U+1ED6", "U+1ED7", "U+1ED8", "U+1ED9", "U+1EDA", "U+1EDB", "U+1EDC", "U+1EDD",
   "U+1EDE", "U+1EDF", "U+1EE0", "U+1EE1", "U+1EE2", "U+1EE3", "U+1EE4", "U+1EE5", "U+1EE6", "U+1EE7", "U+1EE8",
   "U+1EE9", "U+1EEA", "U+1EEB", "U+1EEC", "U+1EED", "U+1EEE", "U+1EEF", "U+1EF0", "U+1EF1", "U+1EF2", "U+1EF3",
   "U+1EF4", "U+1EF5", "U+1EF6", "U+1EF7", "U+1EF8", "U+1EF9", "U+1EFA", "U+1EFB", "U+1EFC", "U+1EFD", "U+1EFE",
   "U+1EFF", "U+1F00", "U+1F01", "U+1F02", "U+1F03", "U+1F04", "U+1F05", "U+1F06", "U+1F07", "U+1F08", "U+1F09",
   "U+1F0A", "U+1F0B", "U+1F0C", "U+1F0D", "U+1F0E", "U+1F0F", "U+1F10", "U+1F11", "U+1F12", "U+1F13", "U+1F14",
   "U+1F15", "U+1F18", "U+1F19", "U+1F1A", "U+1F1B", "U+1F1C", "U+1F1D", "U+1F20", "U+1F21", "U+1F22", "U+1F23",
   "U+1F24", "U+1F25", "U+1F26", "U+1F27", "U+1F28", "U+1F29", "U+1F2A", "U+1F2B", "U+1F2C", "U+1F2D", "U+1F2E",
   "U+1F2F", "U+1F30", "U+1F31", "U+1F32", "U+1F33", "U+1F34", "U+1F35", "U+1F36", "U+1F37", "U+1F38", "U+1F39",
   "U+1F3A", "U+1F3B", "U+1F3C", "U+1F3D", "U+1F3E", "U+1F3F", "U+1F40", "U+1F41", "U+1F42", "U+1F43", "U+1F44",
   "U+1F45", "U+1F48", "U+1F49", "U+1F4A", "U+1F4B", "U+1F4C", "U+1F4D", "U+1F50", "U+1F51", "U+1F52", "U+1F53",
   "U+1F54", "U+1F55", "U+1F56", "U+1F57", "U+1F59", "U+1F5B", "U+1F5D", "U+1F5F", "U+1F60", "U+1F61", "U+1F62",
   "U+1F63", "U+1F64", "U+1F65", "U+1F66", "U+1F67", "U+1F68", "U+1F69", "U+1F6A", "U+1F6B", "U+1F6C", "U+1F6D",
   "U+1F6E", "U+1F6F", "U+1F70", "U+1F71", "U+1F72", "U+1F73", "U+1F74", "U+1F75", "U+1F76", "U+1F77", "U+1F78",
   "U+1F79", "U+1F7A", "U+1F7B", "U+1F7C", "U+1F7D", "U+1F80", "U+1F81", "U+1F82", "U+1F83", "U+1F84", "U+1F85",
   "U+1F86", "U+1F87", "U+1F88", "U+1F89", "U+1F8A", "U+1F8B", "U+1F8C", "U+1F8D", "U+1F8E", "U+1F8F", "U+1F90",
   "U+1F91", "U+1F92", "U+1F93", "U+1F94", "U+1F95", "U+1F96", "U+1F97", "U+1F98", "U+1F99", "U+1F9A", "U+1F9B",
   "U+1F9C", "U+1F9D", "U+1F9E", "U+1F9F", "U+1FA0", "U+1FA1", "U+1FA2", "U+1FA3", "U+1FA4", "U+1FA5", "U+1FA6",
   "U+1FA7", "U+1FA8", "U+1FA9", "U+1FAA", "U+1FAB", "U+1FAC", "U+1FAD", "U+1FAE", "U+1FAF", "U+1FB0", "U+1FB1",
   "U+1FB2", "U+1FB3", "U+1FB4", "U+1FB6", "U+1FB7", "U+1FB8", "U+1FB9", "U+1FBA", "U+1FBB", "U+1FBC", "U+1FBE",
   "U+1FC2", "U+1FC3", "U+1FC4", "U+1FC6", "U+1FC7", "U+1FC8", "U+1FC9", "U+1FCA", "U+1FCB", "U+1FCC", "U+1FD0",
   "U+1FD1", "U+1FD2", "U+1FD3", "U+1FD6", "U+1FD7", "U+1FD8", "U+1FD9", "U+1FDA", "U+1FDB", "U+1FE0", "U+1FE1",
   "U+1FE2", "U+1FE3", "U+1FE4", "U+1FE5", "U+1FE6", "U+1FE7", "U+1FE8", "U+1FE9", "U+1FEA", "U+1FEB", "U+1FEC",
   "U+1FF2", "U+1FF3", "U+1FF4", "U+1FF6", "U+1FF7", "U+1FF8", "U+1FF9", "U+1FFA", "U+1FFB", "U+1FFC", "U+2071",
   "U+207F", "U+2090", "U+2091", "U+2092", "U+2093", "U+2094", "U+2095", "U+2096", "U+2097", "U+2098", "U+2099",
   "U+209A", "U+209B", "U+209C", "U+2102", "U+2107", "U+210A", "U+210B", "U+210C", "U+210D", "U+210E", "U+210F",
   "U+2110", "U+2111", "U+2112", "U+2113", "U+2115", "U+2119", "U+211A", "U+211B", "U+211C", "U+211D", "U+2124",
   "U+2126", "U+2128", "U+212A", "U+212B", "U+212C", "U+212D", "U+212F", "U+2130", "U+2131", "U+2132", "U+2133",
   "U+2134", "U+2139", "U+213C", "U+213D", "U+213E", "U+213F", "U+2145", "U+2146", "U+2147", "U+2148", "U+2149",
   "U+214E", "U+2160", "U+2161", "U+2162", "U+2163", "U+2164", "U+2165", "U+2166", "U+2167", "U+2168", "U+2169",
   "U+216A", "U+216B", "U+216C", "U+216D", "U+216E", "U+216F", "U+2170", "U+2171", "U+2172", "U+2173", "U+2174",
   "U+2175", "U+2176", "U+2177", "U+2178", "U+2179", "U+217A", "U+217B", "U+217C", "U+217D", "U+217E", "U+217F",
   "U+2183", "U+2184", "U+24B6", "U+24B7", "U+24B8", "U+24B9", "U+24BA", "U+24BB", "U+24BC", "U+24BD", "U+24BE",
   "U+24BF", "U+24C0", "U+24C1", "U+24C2", "U+24C3", "U+24C4", "U+24C5", "U+24C6", "U+24C7", "U+24C8", "U+24C9",
   "U+24CA", "U+24CB", "U+24CC", "U+24CD", "U+24CE", "U+24CF", "U+24D0", "U+24D1", "U+24D2", "U+24D3", "U+24D4",
   "U+24D5", "U+24D6", "U+24D7", "U+24D8", "U+24D9", "U+24DA", "U+24DB", "U+24DC", "U+24DD", "U+24DE", "U+24DF",
   "U+24E0", "U+24E1", "U+24E2", "U+24E3", "U+24E4", "U+24E5", "U+24E6", "U+24E7", "U+24E8", "U+24E9", "U+2C00",
   "U+2C01", "U+2C02", "U+2C03", "U+2C04", "U+2C05", "U+2C06", "U+2C07", "U+2C08", "U+2C09", "U+2C0A", "U+2C0B",
   "U+2C0C", "U+2C0D", "U+2C0E", "U+2C0F", "U+2C10", "U+2C11", "U+2C12", "U+2C13", "U+2C14", "U+2C15", "U+2C16",
   "U+2C17", "U+2C18", "U+2C19", "U+2C1A", "U+2C1B", "U+2C1C", "U+2C1D", "U+2C1E", "U+2C1F", "U+2C20", "U+2C21",
   "U+2C22", "U+2C23", "U+2C24", "U+2C25", "U+2C26", "U+2C27", "U+2C28", "U+2C29", "U+2C2A", "U+2C2B", "U+2C2C",
   "U+2C2D", "U+2C2E", "U+2C2F", "U+2C30", "U+2C31", "U+2C32", "U+2C33", "U+2C34", "U+2C35", "U+2C36", "U+2C37",
   "U+2C38", "U+2C39", "U+2C3A", "U+2C3B", "U+2C3C", "U+2C3D", "U+2C3E", "U+2C3F", "U+2C40", "U+2C41", "U+2C42",
   "U+2C43", "U+2C44", "U+2C45", "U+2C46", "U+2C47", "U+2C48", "U+2C49", "U+2C4A", "U+2C4B", "U+2C4C", "U+2C4D",
   "U+2C4E", "U+2C4F", "U+2C50", "U+2C51", "U+2C52", "U+2C53", "U+2C54", "U+2C55", "U+2C56", "U+2C57", "U+2C58",
   "U+2C59", "U+2C5A", "U+2C5B", "U+2C5C", "U+2C5D", "U+2C5E", "U+2C5F", "U+2C60", "U+2C61", "U+2C62", "U+2C63",
   "U+2C64", "U+2C65", "U+2C66", "U+2C67", "U+2C68", "U+2C69", "U+2C6A", "U+2C6B", "U+2C6C", "U+2C6D", "U+2C6E",
   "U+2C6F", "U+2C70", "U+2C71", "U+2C72", "U+2C73", "U+2C74", "U+2C75", "U+2C76", "U+2C77", "U+2C78", "U+2C79",
   "U+2C7A", "U+2C7B", "U+2C7C", "U+2C7D", "U+2C7E", "U+2C7F", "U+2C80", "U+2C81", "U+2C82", "U+2C83", "U+2C84",
   "U+2C85", "U+2C86", "U+2C87", "U+2C88", "U+2C89", "U+2C8A", "U+2C8B", "U+2C8C", "U+2C8D", "U+2C8E", "U+2C8F",
   "U+2C90", "U+2C91", "U+2C92", "U+2C93", "U+2C94", "U+2C95", "U+2C96", "U+2C97", "U+2C98", "U+2C99", "U+2C9A",
   "U+2C9B", "U+2C9C", "U+2C9D", "U+2C9E", "U+2C9F", "U+2CA0", "U+2CA1", "U+2CA2", "U+2CA3", "U+2CA4", "U+2CA5",
   "U+2CA6", "U+2CA7", "U+2CA8", "U+2CA9", "U+2CAA", "U+2CAB", "U+2CAC", "U+2CAD", "U+2CAE", "U+2CAF", "U+2CB0",
   "U+2CB1", "U+2CB2", "U+2CB3", "U+2CB4", "U+2CB5", "U+2CB6", "U+2CB7", "U+2CB8", "U+2CB9", "U+2CBA", "U+2CBB",
   "U+2CBC", "U+2CBD", "U+2CBE", "U+2CBF", "U+2CC0", "U+2CC1", "U+2CC2", "U+2CC3", "U+2CC4", "U+2CC5", "U+2CC6",
   "U+2CC7", "U+2CC8", "U+2CC9", "U+2CCA", "U+2CCB", "U+2CCC", "U+2CCD", "U+2CCE", "U+2CCF", "U+2CD0", "U+2CD1",
   "U+2CD2", "U+2CD3", "U+2CD4", "U+2CD5", "U+2CD6", "U+2CD7", "U+2CD8", "U+2CD9", "U+2CDA", "U+2CDB", "U+2CDC",
   "U+2CDD", "U+2CDE", "U+2CDF", "U+2CE0", "U+2CE1", "U+2CE2", "U+2CE3", "U+2CE4", "U+2CEB", "U+2CEC", "U+2CED",
   "U+2CEE", "U+2CF2", "U+2CF3", "U+2D00", "U+2D01", "U+2D02", "U+2D03", "U+2D04", "U+2D05", "U+2D06", "U+2D07",
   "U+2D08", "U+2D09", "U+2D0A", "U+2D0B", "U+2D0C", "U+2D0D", "U+2D0E", "U+2D0F", "U+2D10", "U+2D11", "U+2D12",
   "U+2D13", "U+2D14", "U+2D15", "U+2D16", "U+2D17", "U+2D18", "U+2D19", "U+2D1A", "U+2D1B", "U+2D1C", "U+2D1D",
   "U+2D1E", "U+2D1F", "U+2D20", "U+2D21", "U+2D22", "U+2D23", "U+2D24", "U+2D25", "U+2D27", "U+2D2D", "U+A640",
   "U+A641", "U+A642", "U+A643", "U+A644", "U+A645", "U+A646", "U+A647", "U+A648", "U+A649", "U+A64A", "U+A64B",
   "U+A64C", "U+A64D", "U+A64E", "U+A64F", "U+A650", "U+A651", "U+A652", "U+A653", "U+A654", "U+A655", "U+A656",
   "U+A657", "U+A658", "U+A659", "U+A65A", "U+A65B", "U+A65C", "U+A65D", "U+A65E", "U+A65F", "U+A660", "U+A661",
   "U+A662", "U+A663", "U+A664", "U+A665", "U+A666", "U+A667", "U+A668", "U+A669", "U+A66A", "U+A66B", "U+A66C",
   "U+A66D", "U+A680", "U+A681", "U+A682", "U+A683", "U+A684", "U+A685", "U+A686", "U+A687", "U+A688", "U+A689",
   "U+A68A", "U+A68B", "U+A68C", "U+A68D", "U+A68E", "U+A68F", "U+A690", "U+A691", "U+A692", "U+A693", "U+A694",
   "U+A695", "U+A696", "U+A697", "U+A698", "U+A699", "U+A69A", "U+A69B", "U+A69C", "U+A69D", "U+A722", "U+A723",
   "U+A724", "U+A725", "U+A726", "U+A727", "U+A728", "U+A729", "U+A72A", "U+A72B", "U+A72C", "U+A72D", "U+A72E",
   "U+A72F", "U+A730", "U+A731", "U+A732", "U+A733", "U+A734", "U+A735", "U+A736", "U+A737", "U+A738", "U+A739",
   "U+A73A", "U+A73B", "U+A73C", "U+A73D", "U+A73E", "U+A73F", "U+A740", "U+A741", "U+A742", "U+A743", "U+A744",
   "U+A745", "U+A746", "U+A747", "U+A748", "U+A749", "U+A74A", "U+A74B", "U+A74C", "U+A74D", "U+A74E", "U+A74F",
   "U+A750", "U+A751", "U+A752", "U+A753", "U+A754", "U+A755", "U+A756", "U+A757", "U+A758", "U+A759", "U+A75A",
   "U+A75B", "U+A75C", "U+A75D", "U+A75E", "U+A75F", "U+A760", "U+A761", "U+A762", "U+A763", "U+A764", "U+A765",
   "U+A766", "U+A767", "U+A768", "U+A769", "U+A76A", "U+A76B", "U+A76C", "U+A76D", "U+A76E", "U+A76F", "U+A770",
   "U+A771", "U+A772", "U+A773", "U+A774", "U+A775", "U+A776", "U+A777", "U+A778", "U+A779", "U+A77A", "U+A77B",
   "U+A77C", "U+A77D", "U+A77E", "U+A77F", "U+A780", "U+A781", "U+A782", "U+A783", "U+A784", "U+A785", "U+A786",
   "U+A787", "U+A78B", "U+A78C", "U+A78D", "U+A78E", "U+A790", "U+A791", "U+A792", "U+A793", "U+A794", "U+A795",
   "U+A796", "U+A797", "U+A798", "U+A799", "U+A79A", "U+A79B", "U+A79C", "U+A79D", "U+A79E", "U+A79F", "U+A7A0",
   "U+A7A1", "U+A7A2", "U+A7A3", "U+A7A4", "U+A7A5", "U+A7A6", "U+A7A7", "U+A7A8", "U+A7A9", "U+A7AA", "U+A7AB",
   "U+A7AC", "U+A7AD", "U+A7AE", "U+A7AF", "U+A7B0", "U+A7B1", "U+A7B2", "U+A7B3", "U+A7B4", "U+A7B5", "U+A7B6",
   "U+A7B7", "U+A7B8", "U+A7B9", "U+A7BA", "U+A7BB", "U+A7BC", "U+A7BD", "U+A7BE", "U+A7BF", "U+A7C0", "U+A7C1",
   "U+A7C2", "U+A7C3", "U+A7C4", "U+A7C5", "U+A7C6", "U+A7C7", "U+A7C8", "U+A7C9", "U+A7CA", "U+A7D0", "U+A7D1",
   "U+A7D3", "U+A7D5", "U+A7D6", "U+A7D7", "U+A7D8", "U+A7D9", "U+A7F5", "U+A7F6", "U+A7F8", "U+A7F9", "U+A7FA",
   "U+AB30", "U+AB31", "U+AB32", "U+AB33", "U+AB34", "U+AB35", "U+AB36", "U+AB37", "U+AB38", "U+AB39", "U+AB3A",
   "U+AB3B", "U+AB3C", "U+AB3D", "U+AB3E", "U+AB3F", "U+AB40", "U+AB41", "U+AB42", "U+AB43", "U+AB44", "U+AB45",
   "U+AB46", "U+AB47", "U+AB48", "U+AB49", "U+AB4A", "U+AB4B", "U+AB4C", "U+AB4D", "U+AB4E", "U+AB4F", "U+AB50",
   "U+AB51", "U+AB52", "U+AB53", "U+AB54", "U+AB55", "U+AB56", "U+AB57", "U+AB58", "U+AB59", "U+AB5A", "U+AB5C",
   "U+AB5D", "U+AB5E", "U+AB5F", "U+AB60", "U+AB61", "U+AB62", "U+AB63", "U+AB64", "U+AB65", "U+AB66", "U+AB67",
   "U+AB68", "U+AB70", "U+AB71", "U+AB72", "U+AB73", "U+AB74", "U+AB75", "U+AB76", "U+AB77", "U+AB78", "U+AB79",
   "U+AB7A", "U+AB7B", "U+AB7C", "U+AB7D", "U+AB7E", "U+AB7F", "U+AB80", "U+AB81", "U+AB82", "U+AB83", "U+AB84",
   "U+AB85", "U+AB86", "U+AB87", "U+AB88", "U+AB89", "U+AB8A", "U+AB8B", "U+AB8C", "U+AB8D", "U+AB8E", "U+AB8F",
   "U+AB90", "U+AB91", "U+AB92", "U+AB93", "U+AB94", "U+AB95", "U+AB96", "U+AB97", "U+AB98", "U+AB99", "U+AB9A",
   "U+AB9B", "U+AB9C", "U+AB9D", "U+AB9E", "U+AB9F", "U+ABA0", "U+ABA1", "U+ABA2", "U+ABA3", "U+ABA4", "U+ABA5",
   "U+ABA6", "U+ABA7", "U+ABA8", "U+ABA9", "U+ABAA", "U+ABAB", "U+ABAC", "U+ABAD", "U+ABAE", "U+ABAF", "U+ABB0",
   "U+ABB1", "U+ABB2", "U+ABB3", "U+ABB4", "U+ABB5", "U+ABB6", "U+ABB7", "U+ABB8", "U+ABB9", "U+ABBA", "U+ABBB",
   "U+ABBC", "U+ABBD", "U+ABBE", "U+ABBF", "U+FB00", "U+FB01", "U+FB02", "U+FB03", "U+FB04", "U+FB05", "U+FB06",
   "U+FB13", "U+FB14", "U+FB15", "U+FB16", "U+FB17", "U+FF21", "U+FF22", "U+FF23", "U+FF24", "U+FF25", "U+FF26",
   "U+FF27", "U+FF28", "U+FF29", "U+FF2A", "U+FF2B", "U+FF2C", "U+FF2D", "U+FF2E", "U+FF2F", "U+FF30", "U+FF31",
   "U+FF32", "U+FF33", "U+FF34", "U+FF35", "U+FF36", "U+FF37", "U+FF38", "U+FF39", "U+FF3A", "U+FF41", "U+FF42",
   "U+FF43", "U+FF44", "U+FF45", "U+FF46", "U+FF47", "U+FF48", "U+FF49", "U+FF4A", "U+FF4B", "U+FF4C", "U+FF4D",
   "U+FF4E", "U+FF4F", "U+FF50", "U+FF51", "U+FF52", "U+FF53", "U+FF54", "U+FF55", "U+FF56", "U+FF57", "U+FF58",
   "U+FF59", "U+FF5A", "U+10400", "U+10401", "U+10402", "U+10403", "U+10404", "U+10405", "U+10406", "U+10407",
   "U+10408", "U+10409", "U+1040A", "U+1040B", "U+1040C", "U+1040D", "U+1040E", "U+1040F", "U+10410", "U+10411",
   "U+10412", "U+10413", "U+10414", "U+10415", "U+10416", "U+10417", "U+10418", "U+10419", "U+1041A", "U+1041B",
   "U+1041C", "U+1041D", "U+1041E", "U+1041F", "U+10420", "U+10421", "U+10422", "U+10423", "U+10424", "U+10425",
   "U+10426", "U+10427", "U+10428", "U+10429", "U+1042A", "U+1042B", "U+1042C", "U+1042D", "U+1042E", "U+1042F",
   "U+10430", "U+10431", "U+10432", "U+10433", "U+10434", "U+10435", "U+10436", "U+10437", "U+10438", "U+10439",
   "U+1043A", "U+1043B", "U+1043C", "U+1043D", "U+1043E", "U+1043F", "U+10440", "U+10441", "U+10442", "U+10443",
   "U+10444", "U+10445", "U+10446", "U+10447", "U+10448", "U+10449", "U+1044A", "U+1044B", "U+1044C", "U+1044D",
   "U+1044E", "U+1044F", "U+104B0", "U+104B1", "U+104B2", "U+104B3", "U+104B4", "U+104B5", "U+104B6", "U+104B7",
   "U+104B8", "U+104B9", "U+104BA", "U+104BB", "U+104BC", "U+104BD", "U+104BE", "U+104BF", "U+104C0", "U+104C1",
   "U+104C2", "U+104C3", "U+104C4", "U+104C5", "U+104C6", "U+104C7", "U+104C8", "U+104C9", "U+104CA", "U+104CB",
   "U+104CC", "U+104CD", "U+104CE", "U+104CF", "U+104D0", "U+104D1", "U+104D2", "U+104D3", "U+104D8", "U+104D9",
   "U+104DA", "U+104DB", "U+104DC", "U+104DD", "U+104DE", "U+104DF", "U+104E0", "U+104E1", "U+104E2", "U+104E3",
   "U+104E4", "U+104E5", "U+104E6", "U+104E7", "U+104E8", "U+104E9", "U+104EA", "U+104EB", "U+104EC", "U+104ED",
   "U+104EE", "U+104EF", "U+104F0", "U+104F1", "U+104F2", "U+104F3", "U+104F4", "U+104F5", "U+104F6", "U+104F7",
   "U+104F8", "U+104F9", "U+104FA", "U+104FB", "U+10570", "U+10571", "U+10572", "U+10573", "U+10574", "U+10575",
   "U+10576", "U+10577", "U+10578", "U+10579", "U+1057A", "U+1057C", "U+1057D", "U+1057E", "U+1057F", "U+10580",
   "U+10581", "U+10582", "U+10583", "U+10584", "U+10585", "U+10586", "U+10587", "U+10588", "U+10589", "U+1058A",
   "U+1058C", "U+1058D", "U+1058E", "U+1058F", "U+10590", "U+10591", "U+10592", "U+10594", "U+10595", "U+10597",
   "U+10598", "U+10599", "U+1059A", "U+1059B", "U+1059C", "U+1059D", "U+1059E", "U+1059F", "U+105A0", "U+105A1",
   "U+105A3", "U+105A4", "U+105A5", "U+105A6", "U+105A7", "U+105A8", "U+105A9", "U+105AA", "U+105AB", "U+105AC",
   "U+105AD", "U+105AE", "U+105AF", "U+105B0", "U+105B1", "U+105B3", "U+105B4", "U+105B5", "U+105B6", "U+105B7",
   "U+105B8", "U+105B9", "U+105BB", "U+105BC", "U+10780", "U+10783", "U+10784", "U+10785", "U+10787", "U+10788",
   "U+10789", "U+1078A", "U+1078B", "U+1078C", "U+1078D", "U+1078E", "U+1078F", "U+10790", "U+10791", "U+10792",
   "U+10793", "U+10794", "U+10795", "U+10796", "U+10797", "U+10798", "U+10799", "U+1079A", "U+1079B", "U+1079C",
   "U+1079D", "U+1079E", "U+1079F", "U+107A0", "U+107A1", "U+107A2", "U+107A3", "U+107A4", "U+107A5", "U+107A6",
   "U+107A7", "U+107A8", "U+107A9", "U+107AA", "U+107AB", "U+107AC", "U+107AD", "U+107AE", "U+107AF", "U+107B0",
   "U+107B2", "U+107B3", "U+107B4", "U+107B5", "U+107B6", "U+107B7", "U+107B8", "U+107B9", "U+107BA", "U+10C80",
   "U+10C81", "U+10C82", "U+10C83", "U+10C84", "U+10C85", "U+10C86", "U+10C87", "U+10C88", "U+10C89", "U+10C8A",
   "U+10C8B", "U+10C8C", "U+10C8D", "U+10C8E", "U+10C8F", "U+10C90", "U+10C91", "U+10C92", "U+10C93", "U+10C94",
   "U+10C95", "U+10C96", "U+10C97", "U+10C98", "U+10C99", "U+10C9A", "U+10C9B", "U+10C9C", "U+10C9D", "U+10C9E",
   "U+10C9F", "U+10CA0", "U+10CA1", "U+10CA2", "U+10CA3", "U+10CA4", "U+10CA5", "U+10CA6", "U+10CA7", "U+10CA8",
   "U+10CA9", "U+10CAA", "U+10CAB", "U+10CAC", "U+10CAD", "U+10CAE", "U+10CAF", "U+10CB0", "U+10CB1", "U+10CB2",
   "U+10CC0", "U+10CC1", "U+10CC2", "U+10CC3", "U+10CC4", "U+10CC5", "U+10CC6", "U+10CC7", "U+10CC8", "U+10CC9",
   "U+10CCA", "U+10CCB", "U+10CCC", "U+10CCD", "U+10CCE", "U+10CCF", "U+10CD0", "U+10CD1", "U+10CD2", "U+10CD3",
   "U+10CD4", "U+10CD5", "U+10CD6", "U+10CD7", "U+10CD8", "U+10CD9", "U+10CDA", "U+10CDB", "U+10CDC", "U+10CDD",
   "U+10CDE", "U+10CDF", "U+10CE0", "U+10CE1", "U+10CE2", "U+10CE3", "U+10CE4", "U+10CE5", "U+10CE6", "U+10CE7",
   "U+10CE8", "U+10CE9", "U+10CEA", "U+10CEB", "U+10CEC", "U+10CED", "U+10CEE", "U+10CEF", "U+10CF0", "U+10CF1",
   "U+10CF2", "U+118A0", "U+118A1", "U+118A2", "U+118A3", "U+118A4", "U+118A5", "U+118A6", "U+118A7", "U+118A8",
   "U+118A9", "U+118AA", "U+118AB", "U+118AC", "U+118AD", "U+118AE", "U+118AF", "U+118B0", "U+118B1", "U+118B2",
   "U+118B3", "U+118B4", "U+118B5", "U+118B6", "U+118B7", "U+118B8", "U+118B9", "U+118BA", "U+118BB", "U+118BC",
   "U+118BD", "U+118BE", "U+118BF", "U+118C0", "U+118C1", "U+118C2", "U+118C3", "U+118C4", "U+118C5", "U+118C6",
   "U+118C7", "U+118C8", "U+118C9", "U+118CA", "U+118CB", "U+118CC", "U+118CD", "U+118CE", "U+118CF", "U+118D0",
   "U+118D1", "U+118D2", "U+118D3", "U+118D4", "U+118D5", "U+118D6", "U+118D7", "U+118D8", "U+118D9", "U+118DA",
   "U+118DB", "U+118DC", "U+118DD", "U+118DE", "U+118DF", "U+16E40", "U+16E41", "U+16E42", "U+16E43", "U+16E44",
   "U+16E45", "U+16E46", "U+16E47", "U+16E48", "U+16E49", "U+16E4A", "U+16E4B", "U+16E4C", "U+16E4D", "U+16E4E",
   "U+16E4F", "U+16E50", "U+16E51", "U+16E52", "U+16E53", "U+16E54", "U+16E55", "U+16E56", "U+16E57", "U+16E58",
   "U+16E59", "U+16E5A", "U+16E5B", "U+16E5C", "U+16E5D", "U+16E5E", "U+16E5F", "U+16E60", "U+16E61", "U+16E62",
   "U+16E63", "U+16E64", "U+16E65", "U+16E66", "U+16E67", "U+16E68", "U+16E69", "U+16E6A", "U+16E6B", "U+16E6C",
   "U+16E6D", "U+16E6E", "U+16E6F", "U+16E70", "U+16E71", "U+16E72", "U+16E73", "U+16E74", "U+16E75", "U+16E76",
   "U+16E77", "U+16E78", "U+16E79", "U+16E7A", "U+16E7B", "U+16E7C", "U+16E7D", "U+16E7E", "U+16E7F", "U+1D400",
   "U+1D401", "U+1D402", "U+1D403", "U+1D404", "U+1D405", "U+1D406", "U+1D407", "U+1D408", "U+1D409", "U+1D40A",
   "U+1D40B", "U+1D40C", "U+1D40D", "U+1D40E", "U+1D40F", "U+1D410", "U+1D411", "U+1D412", "U+1D413", "U+1D414",
   "U+1D415", "U+1D416", "U+1D417", "U+1D418", "U+1D419", "U+1D41A", "U+1D41B", "U+1D41C", "U+1D41D", "U+1D41E",
   "U+1D41F", "U+1D420", "U+1D421", "U+1D422", "U+1D423", "U+1D424", "U+1D425", "U+1D426", "U+1D427", "U+1D428",
   "U+1D429", "U+1D42A", "U+1D42B", "U+1D42C", "U+1D42D", "U+1D42E", "U+1D42F", "U+1D430", "U+1D431", "U+1D432",
   "U+1D433", "U+1D434", "U+1D435", "U+1D436", "U+1D437", "U+1D438", "U+1D439", "U+1D43A", "U+1D43B", "U+1D43C",
   "U+1D43D", "U+1D43E", "U+1D43F", "U+1D440", "U+1D441", "U+1D442", "U+1D443", "U+1D444", "U+1D445", "U+1D446",
   "U+1D447", "U+1D448", "U+1D449", "U+1D44A", "U+1D44B", "U+1D44C", "U+1D44D", "U+1D44E", "U+1D44F", "U+1D450",
   "U+1D451", "U+1D452", "U+1D453", "U+1D454", "U+1D456", "U+1D457", "U+1D458", "U+1D459", "U+1D45A", "U+1D45B",
   "U+1D45C", "U+1D45D", "U+1D45E", "U+1D45F", "U+1D460", "U+1D461", "U+1D462", "U+1D463", "U+1D464", "U+1D465",
   "U+1D466", "U+1D467", "U+1D468", "U+1D469", "U+1D46A", "U+1D46B", "U+1D46C", "U+1D46D", "U+1D46E", "U+1D46F",
   "U+1D470", "U+1D471", "U+1D472", "U+1D473", "U+1D474", "U+1D475", "U+1D476", "U+1D477", "U+1D478", "U+1D479",
   "U+1D47A", "U+1D47B", "U+1D47C", "U+1D47D", "U+1D47E", "U+1D47F", "U+1D480", "U+1D481", "U+1D482", "U+1D483",
   "U+1D484", "U+1D485", "U+1D486", "U+1D487", "U+1D488", "U+1D489", "U+1D48A", "U+1D48B", "U+1D48C", "U+1D48D",
   "U+1D48E", "U+1D48F", "U+1D490", "U+1D491", "U+1D492", "U+1D493", "U+1D494", "U+1D495", "U+1D496", "U+1D497",
   "U+1D498", "U+1D499", "U+1D49A", "U+1D49B", "U+1D49C", "U+1D49E", "U+1D49F", "U+1D4A2", "U+1D4A5", "U+1D4A6",
   "U+1D4A9", "U+1D4AA", "U+1D4AB", "U+1D4AC", "U+1D4AE", "U+1D4AF", "U+1D4B0", "U+1D4B1", "U+1D4B2", "U+1D4B3",
   "U+1D4B4", "U+1D4B5", "U+1D4B6", "U+1D4B7", "U+1D4B8", "U+1D4B9", "U+1D4BB", "U+1D4BD", "U+1D4BE", "U+1D4BF",
   "U+1D4C0", "U+1D4C1", "U+1D4C2", "U+1D4C3", "U+1D4C5", "U+1D4C6", "U+1D4C7", "U+1D4C8", "U+1D4C9", "U+1D4CA",
   "U+1D4CB", "U+1D4CC", "U+1D4CD", "U+1D4CE", "U+1D4CF", "U+1D4D0", "U+1D4D1", "U+1D4D2", "U+1D4D3", "U+1D4D4",
   "U+1D4D5", "U+1D4D6", "U+1D4D7", "U+1D4D8", "U+1D4D9", "U+1D4DA", "U+1D4DB", "U+1D4DC", "U+1D4DD", "U+1D4DE",
   "U+1D4DF", "U+1D4E0", "U+1D4E1", "U+1D4E2", "U+1D4E3", "U+1D4E4", "U+1D4E5", "U+1D4E6", "U+1D4E7", "U+1D4E8",
   "U+1D4E9", "U+1D4EA", "U+1D4EB", "U+1D4EC", "U+1D4ED", "U+1D4EE", "U+1D4EF", "U+1D4F0", "U+1D4F1", "U+1D4F2",
   "U+1D4F3", "U+1D4F4", "U+1D4F5", "U+1D4F6", "U+1D4F7", "U+1D4F8", "U+1D4F9", "U+1D4FA", "U+1D4FB", "U+1D4FC",
   "U+1D4FD", "U+1D4FE", "U+1D4FF", "U+1D500", "U+1D501", "U+1D502", "U+1D503", "U+1D504", "U+1D505", "U+1D507",
   "U+1D508", "U+1D509", "U+1D50A", "U+1D50D", "U+1D50E", "U+1D50F", "U+1D510", "U+1D511", "U+1D512", "U+1D513",
   "U+1D514", "U+1D516", "U+1D517", "U+1D518", "U+1D519", "U+1D51A", "U+1D51B", "U+1D51C", "U+1D51E", "U+1D51F",
   "U+1D520", "U+1D521", "U+1D522", "U+1D523", "U+1D524", "U+1D525", "U+1D526", "U+1D527", "U+1D528", "U+1D529",
   "U+1D52A", "U+1D52B", "U+1D52C", "U+1D52D", "U+1D52E", "U+1D52F", "U+1D530", "U+1D531", "U+1D532", "U+1D533",
   "U+1D534", "U+1D535", "U+1D536", "U+1D537", "U+1D538", "U+1D539", "U+1D53B", "U+1D53C", "U+1D53D", "U+1D53E",
   "U+1D540", "U+1D541", "U+1D542", "U+1D543", "U+1D544", "U+1D546", "U+1D54A", "U+1D54B", "U+1D54C", "U+1D54D",
   "U+1D54E", "U+1D54F", "U+1D550", "U+1D552", "U+1D553", "U+1D554", "U+1D555", "U+1D556", "U+1D557", "U+1D558",
   "U+1D559", "U+1D55A", "U+1D55B", "U+1D55C", "U+1D55D", "U+1D55E", "U+1D55F", "U+1D560", "U+1D561", "U+1D562",
   "U+1D563", "U+1D564", "U+1D565", "U+1D566", "U+1D567", "U+1D568", "U+1D569", "U+1D56A", "U+1D56B", "U+1D56C",
   "U+1D56D", "U+1D56E", "U+1D56F", "U+1D570", "U+1D571", "U+1D572", "U+1D573", "U+1D574", "U+1D575", "U+1D576",
   "U+1D577", "U+1D578", "U+1D579", "U+1D57A", "U+1D57B", "U+1D57C", "U+1D57D", "U+1D57E", "U+1D57F", "U+1D580",
   "U+1D581", "U+1D582", "U+1D583", "U+1D584", "U+1D585", "U+1D586", "U+1D587", "U+1D588", "U+1D589", "U+1D58A",
   "U+1D58B", "U+1D58C", "U+1D58D", "U+1D58E", "U+1D58F", "U+1D590", "U+1D591", "U+1D592", "U+1D593", "U+1D594",
   "U+1D595", "U+1D596", "U+1D597", "U+1D598", "U+1D599", "U+1D59A", "U+1D59B", "U+1D59C", "U+1D59D", "U+1D59E",
   "U+1D59F", "U+1D5A0", "U+1D5A1", "U+1D5A2", "U+1D5A3", "U+1D5A4", "U+1D5A5", "U+1D5A6", "U+1D5A7", "U+1D5A8",
   "U+1D5A9", "U+1D5AA", "U+1D5AB", "U+1D5AC", "U+1D5AD", "U+1D5AE", "U+1D5AF", "U+1D5B0", "U+1D5B1", "U+1D5B2",
   "U+1D5B3", "U+1D5B4", "U+1D5B5", "U+1D5B6", "U+1D5B7", "U+1D5B8", "U+1D5B9", "U+1D5BA", "U+1D5BB", "U+1D5BC",
   "U+1D5BD", "U+1D5BE", "U+1D5BF", "U+1D5C0", "U+1D5C1", "U+1D5C2", "U+1D5C3", "U+1D5C4", "U+1D5C5", "U+1D5C6",
   "U+1D5C7", "U+1D5C8", "U+1D5C9", "U+1D5CA", "U+1D5CB", "U+1D5CC", "U+1D5CD", "U+1D5CE", "U+1D5CF", "U+1D5D0",
   "U+1D5D1", "U+1D5D2", "U+1D5D3", "U+1D5D4", "U+1D5D5", "U+1D5D6", "U+1D5D7", "U+1D5D8", "U+1D5D9", "U+1D5DA",
   "U+1D5DB", "U+1D5DC", "U+1D5DD", "U+1D5DE", "U+1D5DF", "U+1D5E0", "U+1D5E1", "U+1D5E2", "U+1D5E3", "U+1D5E4",
   "U+1D5E5", "U+1D5E6", "U+1D5E7", "U+1D5E8", "U+1D5E9", "U+1D5EA", "U+1D5EB", "U+1D5EC", "U+1D5ED", "U+1D5EE",
   "U+1D5EF", "U+1D5F0", "U+1D5F1", "U+1D5F2", "U+1D5F3", "U+1D5F4", "U+1D5F5", "U+1D5F6", "U+1D5F7", "U+1D5F8",
   "U+1D5F9", "U+1D5FA", "U+1D5FB", "U+1D5FC", "U+1D5FD", "U+1D5FE", "U+1D5FF", "U+1D600", "U+1D601", "U+1D602",
   "U+1D603", "U+1D604", "U+1D605", "U+1D606", "U+1D607", "U+1D608", "U+1D609", "U+1D60A", "U+1D60B", "U+1D60C",
   "U+1D60D", "U+1D60E", "U+1D60F", "U+1D610", "U+1D611", "U+1D612", "U+1D613", "U+1D614", "U+1D615", "U+1D616",
   "U+1D617", "U+1D618", "U+1D619", "U+1D61A", "U+1D61B", "U+1D61C", "U+1D61D", "U+1D61E", "U+1D61F", "U+1D620",
   "U+1D621", "U+1D622", "U+1D623", "U+1D624", "U+1D625", "U+1D626", "U+1D627", "U+1D628", "U+1D629", "U+1D62A",
   "U+1D62B", "U+1D62C", "U+1D62D", "U+1D62E", "U+1D62F", "U+1D630", "U+1D631", "U+1D632", "U+1D633", "U+1D634",
   "U+1D635", "U+1D636", "U+1D637", "U+1D638", "U+1D639", "U+1D63A", "U+1D63B", "U+1D63C", "U+1D63D", "U+1D63E",
   "U+1D63F", "U+1D640", "U+1D641", "U+1D642", "U+1D643", "U+1D644", "U+1D645", "U+1D646", "U+1D647", "U+1D648",
   "U+1D649", "U+1D64A", "U+1D64B", "U+1D64C", "U+1D64D", "U+1D64E", "U+1D64F", "U+1D650", "U+1D651", "U+1D652",
   "U+1D653", "U+1D654", "U+1D655", "U+1D656", "U+1D657", "U+1D658", "U+1D659", "U+1D65A", "U+1D65B", "U+1D65C",
   "U+1D65D", "U+1D65E", "U+1D65F", "U+1D660", "U+1D661", "U+1D662", "U+1D663", "U+1D664", "U+1D665", "U+1D666",
   "U+1D667", "U+1D668", "U+1D669", "U+1D66A", "U+1D66B", "U+1D66C", "U+1D66D", "U+1D66E", "U+1D66F", "U+1D670",
   "U+1D671", "U+1D672", "U+1D673", "U+1D674", "U+1D675", "U+1D676", "U+1D677", "U+1D678", "U+1D679", "U+1D67A",
   "U+1D67B", "U+1D67C", "U+1D67D", "U+1D67E", "U+1D67F", "U+1D680", "U+1D681", "U+1D682", "U+1D683", "U+1D684",
   "U+1D685", "U+1D686", "U+1D687", "U+1D688", "U+1D689", "U+1D68A", "U+1D68B", "U+1D68C", "U+1D68D", "U+1D68E",
   "U+1D68F", "U+1D690", "U+1D691", "U+1D692", "U+1D693", "U+1D694", "U+1D695", "U+1D696", "U+1D697", "U+1D698",
   "U+1D699", "U+1D69A", "U+1D69B", "U+1D69C", "U+1D69D", "U+1D69E", "U+1D69F", "U+1D6A0", "U+1D6A1", "U+1D6A2",
   "U+1D6A3", "U+1D6A4", "U+1D6A5", "U+1D6A8", "U+1D6A9", "U+1D6AA", "U+1D6AB", "U+1D6AC", "U+1D6AD", "U+1D6AE",
   "U+1D6AF", "U+1D6B0", "U+1D6B1", "U+1D6B2", "U+1D6B3", "U+1D6B4", "U+1D6B5", "U+1D6B6", "U+1D6B7", "U+1D6B8",
   "U+1D6B9", "U+1D6BA", "U+1D6BB", "U+1D6BC", "U+1D6BD", "U+1D6BE", "U+1D6BF", "U+1D6C0", "U+1D6C2", "U+1D6C3",
   "U+1D6C4", "U+1D6C5", "U+1D6C6", "U+1D6C7", "U+1D6C8", "U+1D6C9", "U+1D6CA", "U+1D6CB", "U+1D6CC", "U+1D6CD",
   "U+1D6CE", "U+1D6CF", "U+1D6D0", "U+1D6D1", "U+1D6D2", "U+1D6D3", "U+1D6D4", "U+1D6D5", "U+1D6D6", "U+1D6D7",
   "U+1D6D8", "U+1D6D9", "U+1D6DA", "U+1D6DC", "U+1D6DD", "U+1D6DE", "U+1D6DF", "U+1D6E0", "U+1D6E1", "U+1D6E2",
   "U+1D6E3", "U+1D6E4", "U+1D6E5", "U+1D6E6", "U+1D6E7", "U+1D6E8", "U+1D6E9", "U+1D6EA", "U+1D6EB", "U+1D6EC",
   "U+1D6ED", "U+1D6EE", "U+1D6EF", "U+1D6F0", "U+1D6F1", "U+1D6F2", "U+1D6F3", "U+1D6F4", "U+1D6F5", "U+1D6F6",
   "U+1D6F7", "U+1D6F8", "U+1D6F9", "U+1D6FA", "U+1D6FC", "U+1D6FD", "U+1D6FE", "U+1D6FF", "U+1D700", "U+1D701",
   "U+1D702", "U+1D703", "U+1D704", "U+1D705", "U+1D706", "U+1D707", "U+1D708", "U+1D709", "U+1D70A", "U+1D70B",
   "U+1D70C", "U+1D70D", "U+1D70E", "U+1D70F", "U+1D710", "U+1D711", "U+1D712", "U+1D713", "U+1D714", "U+1D716",
   "U+1D717", "U+1D718", "U+1D719", "U+1D71A", "U+1D71B", "U+1D71C", "U+1D71D", "U+1D71E", "U+1D71F", "U+1D720",
   "U+1D721", "U+1D722", "U+1D723", "U+1D724", "U+1D725", "U+1D726", "U+1D727", "U+1D728", "U+1D729", "U+1D72A",
   "U+1D72B", "U+1D72C", "U+1D72D", "U+1D72E", "U+1D72F", "U+1D730", "U+1D731", "U+1D732", "U+1D733", "U+1D734",
   "U+1D736", "U+1D737", "U+1D738", "U+1D739", "U+1D73A", "U+1D73B", "U+1D73C", "U+1D73D", "U+1D73E", "U+1D73F",
   "U+1D740", "U+1D741", "U+1D742", "U+1D743", "U+1D744", "U+1D745", "U+1D746", "U+1D747", "U+1D748", "U+1D749",
   "U+1D74A", "U+1D74B", "U+1D74C", "U+1D74D", "U+1D74E", "U+1D750", "U+1D751", "U+1D752", "U+1D753", "U+1D754",
   "U+1D755", "U+1D756", "U+1D757", "U+1D758", "U+1D759", "U+1D75A", "U+1D75B", "U+1D75C", "U+1D75D", "U+1D75E",
   "U+1D75F", "U+1D760", "U+1D761", "U+1D762", "U+1D763", "U+1D764", "U+1D765", "U+1D766", "U+1D767", "U+1D768",
   "U+1D769", "U+1D76A", "U+1D76B", "U+1D76C", "U+1D76D", "U+1D76E", "U+1D770", "U+1D771", "U+1D772", "U+1D773",
   "U+1D774", "U+1D775", "U+1D776", "U+1D777", "U+1D778", "U+1D779", "U+1D77A", "U+1D77B", "U+1D77C", "U+1D77D",
   "U+1D77E", "U+1D77F", "U+1D780", "U+1D781", "U+1D782", "U+1D783", "U+1D784", "U+1D785", "U+1D786", "U+1D787",
   "U+1D788", "U+1D78A", "U+1D78B", "U+1D78C", "U+1D78D", "U+1D78E", "U+1D78F", "U+1D790", "U+1D791", "U+1D792",
   "U+1D793", "U+1D794", "U+1D795", "U+1D796", "U+1D797", "U+1D798", "U+1D799", "U+1D79A", "U+1D79B", "U+1D79C",
   "U+1D79D", "U+1D79E", "U+1D79F", "U+1D7A0", "U+1D7A1", "U+1D7A2", "U+1D7A3", "U+1D7A4", "U+1D7A5", "U+1D7A6",
   "U+1D7A7", "U+1D7A8", "U+1D7AA", "U+1D7AB", "U+1D7AC", "U+1D7AD", "U+1D7AE", "U+1D7AF", "U+1D7B0", "U+1D7B1",
   "U+1D7B2", "U+1D7B3", "U+1D7B4", "U+1D7B5", "U+1D7B6", "U+1D7B7", "U+1D7B8", "U+1D7B9", "U+1D7BA", "U+1D7BB",
   "U+1D7BC", "U+1D7BD", "U+1D7BE", "U+1D7BF", "U+1D7C0", "U+1D7C1", "U+1D7C2", "U+1D7C4", "U+1D7C5", "U+1D7C6",
   "U+1D7C7", "U+1D7C8", "U+1D7C9", "U+1D7CA", "U+1D7CB", "U+1DF00", "U+1DF01", "U+1DF02", "U+1DF03", "U+1DF04",
   "U+1DF05", "U+1DF06", "U+1DF07", "U+1DF08", "U+1DF09", "U+1DF0B", "U+1DF0C", "U+1DF0D", "U+1DF0E", "U+1DF0F",
   "U+1DF10", "U+1DF11", "U+1DF12", "U+1DF13", "U+1DF14", "U+1DF15", "U+1DF16", "U+1DF17", "U+1DF18", "U+1DF19",
   "U+1DF1A", "U+1DF1B", "U+1DF1C", "U+1DF1D", "U+1DF1E", "U+1E900", "U+1E901", "U+1E902", "U+1E903", "U+1E904",
   "U+1E905", "U+1E906", "U+1E907", "U+1E908", "U+1E909", "U+1E90A", "U+1E90B", "U+1E90C", "U+1E90D", "U+1E90E",
   "U+1E90F", "U+1E910", "U+1E911", "U+1E912", "U+1E913", "U+1E914", "U+1E915", "U+1E916", "U+1E917", "U+1E918",
   "U+1E919", "U+1E91A", "U+1E91B", "U+1E91C", "U+1E91D", "U+1E91E", "U+1E91F", "U+1E920", "U+1E921", "U+1E922",
   "U+1E923", "U+1E924", "U+1E925", "U+1E926", "U+1E927", "U+1E928", "U+1E929", "U+1E92A", "U+1E92B", "U+1E92C",
   "U+1E92D", "U+1E92E", "U+1E92F", "U+1E930", "U+1E931", "U+1E932", "U+1E933", "U+1E934", "U+1E935", "U+1E936",
   "U+1E937", "U+1E938", "U+1E939", "U+1E93A", "U+1E93B", "U+1E93C", "U+1E93D", "U+1E93E", "U+1E93F", "U+1E940",
   "U+1E941", "U+1E942", "U+1E943", "U+1F130", "U+1F131", "U+1F132", "U+1F133", "U+1F134", "U+1F135", "U+1F136",
   "U+1F137", "U+1F138", "U+1F139", "U+1F13A", "U+1F13B", "U+1F13C", "U+1F13D", "U+1F13E", "U+1F13F", "U+1F140",
   "U+1F141", "U+1F142", "U+1F143", "U+1F144", "U+1F145", "U+1F146", "U+1F147", "U+1F148", "U+1F149", "U+1F150",
   "U+1F151", "U+1F152", "U+1F153", "U+1F154", "U+1F155", "U+1F156", "U+1F157", "U+1F158", "U+1F159", "U+1F15A",
   "U+1F15B", "U+1F15C", "U+1F15D", "U+1F15E", "U+1F15F", "U+1F160", "U+1F161", "U+1F162", "U+1F163", "U+1F164",
   "U+1F165", "U+1F166", "U+1F167", "U+1F168", "U+1F169", "U+1F170", "U+1F171", "U+1F172", "U+1F173", "U+1F174",
   "U+1F175", "U+1F176", "U+1F177", "U+1F178", "U+1F179", "U+1F17A", "U+1F17B", "U+1F17C", "U+1F17D", "U+1F17E",
   "U+1F17F", "U+1F180", "U+1F181", "U+1F182", "U+1F183", "U+1F184", "U+1F185", "U+1F186", "U+1F187", "U+1F188",
   "U+1F189"}

\* The characters with the Unicode property Case_Ignorable.
CaseIgnorable ==
  {"'", ".", ":", "^", "U+0060", "U+00A8", "U+00AD", "U+00AF", "U+00B4", "U+00B7", "U+00B8", "U+02B0", "U+02B1",
   "U+02B2", "U+02B3", "U+02B4", "U+02B5", "U+02B6", "U+02B7", "U+02B8", "U+02B9", "U+02BA", "U+02BB", "U+02BC",
   "U+02BD", "U+02BE", "U+02BF", "U+02C0", "U+02C1", "U+02C2", "U+02C3", "U+02C4", "U+02C5", "U+02C6", "U+02C7",
   "U+02C8", "U+02C9", "U+02CA", "U+02CB", "U+02CC", "U+02CD", "U+02CE", "U+02CF", "U+02D0", "U+02D1", "U+02D2",
   "U+02D3", "U+02D4", "U+02D5", "U+02D6", "U+02D7", "U+02D8", "U+02D9", "U+02DA", "U+02DB", "U+02DC", "U+02DD",
   "U+02DE", "U+02DF", "U+02E0", "U+02E1", "U+02E2", "U+02E3", "U+02E4", "U+02E5", "U+02E6", "U+02E7", "U+02E8",
   "U+02E9", "U+02EA", "U+02EB", "U+02EC", "U+02ED", "U+02EE", "U+02EF", "U+02F0", "U+02F1", "U+02F2", "U+02F3",
   "U+02F4", "U+02F5", "U+02F6", "U+02F7", "U+02F8", "U+02F9", "U+02FA", "U+02FB", "U+02FC", "U+02FD", "U+02FE",
   "U+02FF", "U+0300", "U+0301", "U+0302", "U+0303", "U+0304", "U+0305", "U+0306", "U+0307", "U+0308", "U+0309",
   "U+030A", "U+030B", "U+030C", "U+030D", "U+030E", "U+030F", "U+0310", "U+0311", "U+0312", "U+0313", "U+0314",
   "U+0315", "U+0316", "U+0317", "U+0318", "U+0319", "U+031A", "U+031B", "U+031C", "U+031D", "U+031E", "U+031F",
   "U+0320", "U+0321", "U+0322", "U+0323", "U+0324", "U+0325", "U+0326", "U+0327", "U+0328", "U+0329", "U+032A",
   "U+032B", "U+032C", "U+032D", "U+032E", "U+032F", "U+0330", "U+0331", "U+0332", "U+0333", "U+0334", "U+0335",
   "U+0336", "U+0337", "U+0338", "U+0339", "U+033A", "U+033B", "U+033C", "U+033D", "U+033E", "U+033F", "U+0340",
   "U+0341", "U+0342", "U+0343", "U+0344", "U+0345", "U+0346", "U+0347", "U+0348", "U+0349", "U+034A", "U+034B",
   "U+034C", "U+034D", "U+034E", "U+034F", "U+0350", "U+0351", "U+0352", "U+0353", "U+0354", "U+0355", "U+0356",
   "U+0357", "U+0358", "U+0359", "U+035A", "U+035B", "U+035C", "U+035D", "U+035E", "U+035F", "U+0360", "U+0361",
   "U+0362", "U+0363", "U+0364", "U+0365", "U+0366", "U+0367", "U+0368", "U+0369", "U+036A", "U+036B", "U+036C",
   "U+036D", "U+036E", "U+036F", "U+0374", "U+0375", "U+037A", "U+0384", "U+0385", "U+0387", "U+0483", "U+0484",
   "U+0485", "U+0486", "U+0487", "U+0488", "U+0489", "U+0559", "U+055F", "U+0591", "U+0592", "U+0593", "U+0594",
   "U+0595", "U+0596", "U+0597", "U+0598", "U+0599", "U+059A", "U+059B", "U+059C", "U+059D", "U+059E", "U+059F",
   "U+05A0", "U+05A1", "U+05A2", "U+05A3", "U+05A4", "U+05A5", "U+05A6", "U+05A7", "U+05A8", "U+05A9", "U+05AA",
   "U+05AB", "U+05AC", "U+05AD", "U+05AE", "U+05AF", "U+05B0", "U+05B1", "U+05B2", "U+05B3", "U+05B4", "U+05B5",
   "U+05B6", "U+05B7", "U+05B8", "U+05B9", "U+05BA", "U+05BB", "U+05BC", "U+05BD", "U+05BF", "U+05C1", "U+05C2",
   "U+05C4", "U+05C5", "U+05C7", "U+05F4", "U+0600", "U+0601", "U+0602", "U+0603", "U+0604", "U+0605", "U+0610",
   "U+0611", "U+0612", "U+0613", "U+0614", "U+0615", "U+0616", "U+0617", "U+0618", "U+0619", "U+061A", "U+061C",
   "U+0640", "U+064B", "U+064C", "U+064D", "U+064E", "U+064F", "U+0650", "U+0651", "U+0652", "U+0653", "U+0654",
   "U+0655", "U+0656", "U+0657", "U+0658", "U+0659", "U+065A", "U+065B", "U+065C", "U+065D", "U+065E", "U+065F",
   "U+0670", "U+06D6", "U+06D7", "U+06D8", "U+06D9", "U+06DA", "U+06DB", "U+06DC", "U+06DD", "U+06DF", "U+06E0",
   "U+06E1", "U+06E2", "U+06E3", "U+06E4", "U+06E5", "U+06E6", "U+06E7", "U+06E8", "U+06EA", "U+06EB", "U+06EC",
   "U+06ED", "U+070F", "U+0711", "U+0730", "U+0731", "U+0732", "U+0733", "U+0734", "U+0735", "U+0736", "U+0737",
   "U+0738", "U+0739", "U+073A", "U+073B", "U+073C", "U+073D", "U+073E", "U+073F", "U+0740", "U+0741", "U+0742",
   "U+0743", "U+0744", "U+0745", "U+0746", "U+0747", "U+0748", "U+0749", "U+074A", "U+07A6", "U+07A7", "U+07A8",
   "U+07A9", "U+07AA", "U+07AB", "U+07AC", "U+07AD", "U+07AE", "U+07AF", "U+07B0", "U+07EB", "U+07EC", "U+07ED",
   "U+07EE", "U+07EF", "U+07F0", "U+07F1", "U+07F2", "U+07F3", "U+07F4", "U+07F5", "U+07FA", "U+07FD", "U+0816",
   "U+0817", "U+0818", "U+0819", "U+081A", "U+081B", "U+081C", "U+081D", "U+081E", "U+081F", "U+0820", "U+0821",
   "U+0822", "U+0823", "U+0824", "U+0825", "U+0826", "U+0827", "U+0828", "U+0829", "U+082A", "U+082B", "U+082C",
   "U+082D", "U+0859", "U+085A", "U+085B", "U+0888", "U+0890", "U+0891", "U+0898", "U+0899", "U+089A", "U+089B",
   "U+089C", "U+089D", "U+089E", "U+089F", "U+08C9", "U+08CA", "U+08CB", "U+08CC", "U+08CD", "U+08CE", "U+08CF",
   "U+08D0", "U+08D1", "U+08D2", "U+08D3", "U+08D4", "U+08D5", "U+08D6", "U+08D7", "U+08D8", "U+08D9", "U+08DA",
   "U+08DB", "U+08DC", "U+08DD", "U+08DE", "U+08DF", "U+08E0", "U+08E1", "U+08E2", "U+08E3", "U+08E4", "U+08E5",
   "U+08E6", "U+08E7", "U+08E8", "U+08E9", "U+08EA", "U+08EB", "U+08EC", "U+08ED", "U+08EE", "U+08EF", "U+08F0",
   "U+08F1", "U+08F2", "U+08F3", "U+08F4", "U+08F5", "U+08F6", "U+08F7", "U+08F8", "U+08F9", "U+08FA", "U+08FB",
   "U+08FC", "U+08FD", "U+08FE", "U+08FF", "U+0900", "U+0901", "U+0902", "U+093A", "U+093C", "U+0941", "U+0942",
   "U+0943", "U+0944", "U+0945", "U+0946", "U+0947", "U+0948", "U+094D", "U+0951", "U+0952", "U+0953", "U+0954",
   "U+0955", "U+0956", "U+0957", "U+0962", "U+0963", "U+0971", "U+0981", "U+09BC", "U+09C1", "U+09C2", "U+09C3",
   "U+09C4", "U+09CD", "U+09E2", "U+09E3", "U+09FE", "U+0A01", "U+0A02", "U+0A3C", "U+0A41", "U+0A42", "U+0A47",
   "U+0A48", "U+0A4B", "U+0A4C", "U+0A4D", "U+0A51", "U+0A70", "U+0A71", "U+0A75", "U+0A81", "U+0A82", "U+0ABC",
   "U+0AC1", "U+0AC2", "U+0AC3", "U+0AC4", "U+0AC5", "U+0AC7", "U+0AC8", "U+0ACD", "U+0AE2", "U+0AE3", "U+0AFA",
   "U+0AFB", "U+0AFC", "U+0AFD", "U+0AFE", "U+0AFF", "U+0B01", "U+0B3C", "U+0B3F", "U+0B41", "U+0B42", "U+0B43",
   "U+0B44", "U+0B4D", "U+0B55", "U+0B56", "U+0B62", "U+0B63", "U+0B82", "U+0BC0", "U+0BCD", "U+0C00", "U+0C04",
   "U+0C3C", "U+0C3E", "U+0C3F", "U+0C40", "U+0C46", "U+0C47", "U+0C48", "U+0C4A", "U+0C4B", "U+0C4C", "U+0C4D",
   "U+0C55", "U+0C56", "U+0C62", "U+0C63", "U+0C81", "U+0CBC", "U+0CBF", "U+0CC6", "U+0CCC", "U+0CCD", "U+0CE2",
   "U+0CE3", "U+0D00", "U+0D01", "U+0D3B", "U+0D3C", "U+0D41", "U+0D42", "U+0D43", "U+0D44", "U+0D4D", "U+0D62",
   "U+0D63", "U+0D81", "U+0DCA", "U+0DD2", "U+0DD3", "U+0DD4", "U+0DD6", "U+0E31", "U+0E34", "U+0E35", "U+0E36",
   "U+0E37", "U+0E38", "U+0E39", "U+0E3A", "U+0E46", "U+0E47", "U+0E48", "U+0E49", "U+0E4A", "U+0E4B", "U+0E4C",
   "U+0E4D", "U+0E4E", "U+0EB1", "U+0EB4", "U+0EB5", "U+0EB6", "U+0EB7", "U+0EB8", "U+0EB9", "U+0EBA", "U+0EBB",
   "U+0EBC", "U+0EC6", "U+0EC8", "U+0EC9", "U+0ECA", "U+0ECB", "U+0ECC", "U+0ECD", "U+0F18", "U+0F19", "U+0F35",
   "U+0F37", "U+0F39", "U+0F71", "U+0F72", "U+0F73", "U+0F74", "U+0F75", "U+0F76", "U+0F77", "U+0F78", "U+0F79",
   "U+0F7A", "U+0F7B", "U+0F7C", "U+0F7D", "U+0F7E", "U+0F80", "U+0F81", "U+0F82", "U+0F83", "U+0F84", "U+0F86",
   "U+0F87", "U+0F8D", "U+0F8E", "U+0F8F", "U+0F90", "U+0F91", "U+0F92", "U+0F93", "U+0F94", "U+0F95", "U+0F96",
   "U+0F97", "U+0F99", "U+0F9A", "U+0F9B", "U+0F9C", "U+0F9D", "U+0F9E", "U+0F9F", "U+0FA0", "U+0FA1", "U+0FA2",
   "U+0FA3", "U+0FA4", "U+0FA5", "U+0FA6", "U+0FA7", "U+0FA8", "U+0FA9", "U+0FAA", "U+0FAB", "U+0FAC", "U+0FAD",
   "U+0FAE", "U+0FAF", "U+0FB0", "U+0FB1", "U+0FB2", "U+0FB3", "U+0FB4", "U+0FB5", "U+0FB6", "U+0FB7", "U+0FB8",
   "U+0FB9", "U+0FBA", "U+0FBB", "U+0FBC", "U+0FC6", "U+102D", "U+102E", "U+102F", "U+1030", "U+1032", "U+1033",
   "U+1034", "U+1035", "U+1036", "U+1037", "U+1039", "U+103A", "U+103D", "U+103E", "U+1058", "U+1059", "U+105E",
   "U+105F", "U+1060", "U+1071", "U+1072", "U+1073", "U+1074", "U+1082", "U+1085", "U+1086", "U+108D", "U+109D",
   "U+10FC", "U+135D", "U+135E", "U+135F", "U+1712", "U+1713", "U+1714", "U+1732", "U+1733", "U+1752", "U+1753",
   "U+1772", "U+1773", "U+17B4", "U+17B5", "U+17B7", "U+17B8", "U+17B9", "U+17BA", "U+17BB", "U+17BC", "U+17BD",
   "U+17C6", "U+17C9", "U+17CA", "U+17CB", "U+17CC", "U+17CD", "U+17CE", "U+17CF", "U+17D0", "U+17D1", "U+17D2",
   "U+17D3", "U+17D7", "U+17DD", "U+180B", "U+180C", "U+180D", "U+180E", "U+180F", "U+1843", "U+1885", "U+1886",
   "U+18A9", "U+1920", "U+1921", "U+1922", "U+1927", "U+1928", "U+1932", "U+1939", "U+193A", "U+193B", "U+1A17",
   "U+1A18", "U+1A1B", "U+1A56", "U+1A58", "U+1A59", "U+1A5A", "U+1A5B", "U+1A5C", "U+1A5D", "U+1A5E", "U+1A60",
   "U+1A62", "U+1A65", "U+1A66", "U+1A67", "U+1A68", "U+1A69", "U+1A6A", "U+1A6B", "U+1A6C", "U+1A73", "U+1A74",
   "U+1A75", "U+1A76", "U+1A77", "U+1A78", "U+1A79", "U+1A7A", "U+1A7B", "U+1A7C", "U+1A7F", "U+1AA7", "U+1AB0",
   "U+1AB1", "U+1AB2", "U+1AB3", "U+1AB4", "U+1AB5", "U+1AB6", "U+1AB7", "U+1AB8", "U+1AB9", "U+1ABA", "U+1ABB",
   "U+1ABC", "U+1ABD", "U+1ABE", "U+1ABF", "U+1AC0", "U+1AC1", "U+1AC2", "U+1AC3", "U+1AC4", "U+1AC5", "U+1AC6",
   "U+1AC7", "U+1AC8", "U+1AC9", "U+1ACA", "U+1ACB", "U+1ACC", "U+1ACD", "U+1ACE", "U+1B00", "U+1B01", "U+1B02",
   "U+1B03", "U+1B34", "U+1B36", "U+1B37", "U+1B38", "U+1B39", "U+1B3A", "U+1B3C", "U+1B42", "U+1B6B", "U+1B6C",
   "U+1B6D", "U+1B6E", "U+1B6F", "U+1B70", "U+1B71", "U+1B72", "U+1B73", "U+1B80", "U+1B81", "U+1BA2", "U+1BA3",
   "U+1BA4", "U+1BA5", "U+1BA8", "U+1BA9", "U+1BAB", "U+1BAC", "U+1BAD", "U+1BE6", "U+1BE8", "U+1BE9", "U+1BED",
   "U+1BEF", "U+1BF0", "U+1BF1", "U+1C2C", "U+1C2D", "U+1C2E", "U+1C2F", "U+1C30", "U+1C31", "U+1C32", "U+1C33",
   "U+1C36", "U+1C37", "U+1C78", "U+1C79", "U+1C7A", "U+1C7B", "U+1C7C", "U+1C7D", "U+1CD0", "U+1CD1", "U+1CD2",
   "U+1CD4", "U+1CD5", "U+1CD6", "U+1CD7", "U+1CD8", "U+1CD9", "U+1CDA", "U+1CDB", "U+1CDC", "U+1CDD", "U+1CDE",
   "U+1CDF", "U+1CE0", "U+1CE2", "U+1CE3", "U+1CE4", "U+1CE5", "U+1CE6", "U+1CE7", "U+1CE8", "U+1CED", "U+1CF4",
   "U+1CF8", "U+1CF9", "U+1D2C", "U+1D2D", "U+1D2E", "U+1D2F", "U+1D30", "U+1D31", "U+1D32", "U+1D33", "U+1D34",
   "U+1D35", "U+1D36", "U+1D37", "U+1D38", "U+1D39", "U+1D3A", "U+1D3B", "U+1D3C", "U+1D3D", "U+1D3E", "U+1D3F",
   "U+1D40", "U+1D41", "U+1D42", "U+1D43", "U+1D44", "U+1D45", "U+1D46", "U+1D47", "U+1D48", "U+1D49", "U+1D4A",
   "U+1D4B", "U+1D4C", "U+1D4D", "U+1D4E", "U+1D4F", "U+1D50", "U+1D51", "U+1D52", "U+1D53", "U+1D54", "U+1D55",
   "U+1D56", "U+1D57", "U+1D58", "U+1D59", "U+1D5A", "U+1D5B", "U+1D5C", "U+1D5D", "U+1D5E", "U+1D5F", "U+1D60",
   "U+1D61", "U+1D62", "U+1D63", "U+1D64", "U+1D65", "U+1D66", "U+1D67", "U+1D68", "U+1D69", "U+1D6A", "U+1D78",
   "U+1D9B", "U+1D9C", "U+1D9D", "U+1D9E", "U+1D9F", "U+1DA0", "U+1DA1", "U+1DA2", "U+1DA3", "U+1DA4", "U+1DA5",
   "U+1DA6", "U+1DA7", "U+1DA8", "U+1DA9", "U+1DAA", "U+1DAB", "U+1DAC", "U+1DAD", "U+1DAE", "U+1DAF", "U+1DB0",
   "U+1DB1", "U+1DB2", "U+1DB3", "U+1DB4", "U+1DB5", "U+1DB6", "U+1DB7", "U+1DB8", "U+1DB9", "U+1DBA", "U+1DBB",
   "U+1DBC", "U+1DBD", "U+1DBE", "U+1DBF", "U+1DC0", "U+1DC1", "U+1DC2", "U+1DC3", "U+1DC4", "U+1DC5", "U+1DC6",
   "U+1DC7", "U+1DC8", "U+1DC9", "U+1DCA", "U+1DCB", "U+1DCC", "U+1DCD", "U+1DCE", "U+1DCF", "U+1DD0", "U+1DD1",
   "U+1DD2", "U+1DD3", "U+1DD4", "U+1DD5", "U+1DD6", "U+1DD7", "U+1DD8", "U+1DD9", "U+1DDA", "U+1DDB", "U+1DDC",
   "U+1DDD", "U+1DDE", "U+1DDF", "U+1DE0", "U+1DE1", "U+1DE2", "U+1DE3", "U+1DE4", "U+1DE5", "U+1DE6", "U+1DE7",
   "U+1DE8", "U+1DE9", "U+1DEA", "U+1DEB", "U+1DEC", "U+1DED", "U+1DEE", "U+1DEF", "U+1DF0", "U+1DF1", "U+1DF2",
   "U+1DF3", "U+1DF4", "U+1DF5", "U+1DF6", "U+1DF7", "U+1DF8", "U+1DF9", "U+1DFA", "U+1DFB", "U+1DFC", "U+1DFD",
   "U+1DFE", "U+1DFF", "U+1FBD", "U+1FBF", "U+1FC0", "U+1FC1", "U+1FCD", "U+1FCE", "U+1FCF", "U+1FDD", "U+1FDE",
   "U+1FDF", "U+1FED", "U+1FEE", "U+1FEF", "U+1FFD", "U+1FFE", "U+200B", "U+200C", "U+200D", "U+200E", "U+200F",
   "U+2018", "U+2019", "U+2024", "U+2027", "U+202A", "U+202B", "U+202C", "U+202D", "U+202E", "U+2060", "U+2061",
   "U+2062", "U+2063", "U+2064", "U+2066", "U+2067", "U+2068", "U+2069", "U+206A", "U+206B", "U+206C", "U+206D",
   "U+206E", "U+206F", "U+2071", "U+207F", "U+2090", "U+2091", "U+2092", "U+2093", "U+2094", "U+2095", "U+2096",
   "U+2097", "U+2098", "U+2099", "U+209A", "U+209B", "U+209C", "U+20D0", "U+20D1", "U+20D2", "U+20D3", "U+20D4",
   "U+20D5", "U+20D6", "U+20D7", "U+20D8", "U+20D9", "U+20DA", "U+20DB", "U+20DC", "U+20DD", "U+20DE", "U+20DF",
   "U+20E0", "U+20E1", "U+20E2", "U+20E3", "U+20E4", "U+20E5", "U+20E6", "U+20E7", "U+20E8", "U+20E9", "U+20EA",
   "U+20EB", "U+20EC", "U+20ED", "U+20EE", "U+20EF", "U+20F0", "U+2C7C", "U+2C7D", "U+2CEF", "U+2CF0", "U+2CF1",
   "U+2D6F", "U+2D7F", "U+2DE0", "U+2DE1", "U+2DE2", "U+2DE3", "U+2DE4", "U+2DE5", "U+2DE6", "U+2DE7", "U+2DE8",
   "U+2DE9", "U+2DEA", "U+2DEB", "U+2DEC", "U+2DED", "U+2DEE", "U+2DEF", "U+2DF0", "U+2DF1", "U+2DF2", "U+2DF3",
   "U+2DF4", "U+2DF5", "U+2DF6", "U+2DF7", "U+2DF8", "U+2DF9", "U+2DFA", "U+2DFB", "U+2DFC", "U+2DFD", "U+2DFE",
   "U+2DFF", "U+2E2F", "U+3005", "U+302A", "U+302B", "U+302C", "U+302D", "U+3031", "U+3032", "U+3033", "U+3034",
   "U+3035", "U+303B", "U+3099", "U+309A", "U+309B", "U+309C", "U+309D", "U+309E", "U+30FC", "U+30FD", "U+30FE",
   "U+A015", "U+A4F8", "U+A4F9", "U+A4FA", "U+A4FB", "U+A4FC", "U+A4FD", "U+A60C", "U+A66F", "U+A670", "U+A671",
   "U+A672", "U+A674", "U+A675", "U+A676", "U+A677", "U+A678", "U+A679", "U+A67A", "U+A67B", "U+A67C", "U+A67D",
   "U+A67F", "U+A69C", "U+A69D", "U+A69E", "U+A69F", "U+A6F0", "U+A6F1", "U+A700", "U+A701", "U+A702", "U+A703",
   "U+A704", "U+A705", "U+A706", "U+A707", "U+A708", "U+A709", "U+A70A", "U+A70B", "U+A70C", "U+A70D", "U+A70E",
   "U+A70F", "U+A710", "U+A711", "U+A712", "U+A713", "U+A714", "U+A715", "U+A716", "U+A717", "U+A718", "U+A719",
   "U+A71A", "U+A71B", "U+A71C", "U+A71D", "U+A71E", "U+A71F", "U+A720", "U+A721", "U+A770", "U+A788", "U+A789",
   "U+A78A", "U+A7F2", "U+A7F3", "U+A7F4", "U+A7F8", "U+A7F9", "U+A802", "U+A806", "U+A80B", "U+A825", "U+A826",
   "U+A82C", "U+A8C4", "U+A8C5", "U+A8E0", "U+A8E1", "U+A8E2", "U+A8E3", "U+A8E4", "U+A8E5", "U+A8E6", "U+A8E7",
   "U+A8E8", "U+A8E9", "U+A8EA", "U+A8EB", "U+A8EC", "U+A8ED", "U+A8EE", "U+A8EF", "U+A8F0", "U+A8F1", "U+A8FF",
   "U+A926", "U+A927", "U+A928", "U+A929", "U+A92A", "U+A92B", "U+A92C", "U+A92D", "U+A947", "U+A948", "U+A949",
   "U+A94A", "U+A94B", "U+A94C", "U+A94D", "U+A94E", "U+A94F", "U+A950", "U+A951", "U+A980", "U+A981", "U+A982",
   "U+A9B3", "U+A9B6", "U+A9B7", "U+A9B8", "U+A9B9", "U+A9BC", "U+A9BD", "U+A9CF", "U+A9E5", "U+A9E6", "U+AA29",
   "U+AA2A", "U+AA2B", "U+AA2C", "U+AA2D", "U+AA2E", "U+AA31", "U+AA32", "U+AA35", "U+AA36", "U+AA43", "U+AA4C",
   "U+AA70", "U+AA7C", "U+AAB0", "U+AAB2", "U+AAB3", "U+AAB4", "U+AAB7", "U+AAB8", "U+AABE", "U+AABF", "U+AAC1",
   "U+AADD", "U+AAEC", "U+AAED", "U+AAF3", "U+AAF4", "U+AAF6", "U+AB5B", "U+AB5C", "U+AB5D", "U+AB5E", "U+AB5F",
   "U+AB69", "U+AB6A", "U+AB6B", "U+ABE5", "U+ABE8", "U+ABED", "U+FB1E", "U+FBB2", "U+FBB3", "U+FBB4", "U+FBB5",
   "U+FBB6", "U+FBB7", "U+FBB8", "U+FBB9", "U+FBBA", "U+FBBB", "U+FBBC", "U+FBBD", "U+FBBE", "U+FBBF", "U+FBC0",
   "U+FBC1", "U+FBC2", "U+FE00", "U+FE01", "U+FE02", "U+FE03", "U+FE04", "U+FE05", "U+FE06", "U+FE07", "U+FE08",
   "U+FE09", "U+FE0A", "U+FE0B", "U+FE0C", "U+FE0D", "U+FE0E", "U+FE0F", "U+FE13", "U+FE20", "U+FE21", "U+FE22",
   "U+FE23", "U+FE24", "U+FE25", "U+FE26", "U+FE27", "U+FE28", "U+FE29", "U+FE2A", "U+FE2B", "U+FE2C", "U+FE2D",
   "U+FE2E", "U+FE2F", "U+FE52", "U+FE55", "U+FEFF", "U+FF07", "U+FF0E", "U+FF1A", "U+FF3E", "U+FF40", "U+FF70",
   "U+FF9E", "U+FF9F", "U+FFE3", "U+FFF9", "U+FFFA", "U+FFFB", "U+101FD", "U+102E0", "U+10376", "U+10377", "U+10378",
   "U+10379", "U+1037A", "U+10780", "U+10781", "U+10782", "U+10783", "U+10784", "U+10785", "U+10787", "U+10788",
   "U+10789", "U+1078A", "U+1078B", "U+1078C", "U+1078D", "U+1078E", "U+1078F", "U+10790", "U+10791", "U+10792",
   "U+10793", "U+10794", "U+10795", "U+10796", "U+10797", "U+10798", "U+10799", "U+1079A", "U+1079B", "U+1079C",
   "U+1079D", "U+1079E", "U+1079F", "U+107A0", "U+107A1", "U+107A2", "U+107A3", "U+107A4", "U+107A5", "U+107A6",
   "U+107A7", "U+107A8", "U+107A9", "U+107AA", "U+107AB", "U+107AC", "U+107AD", "U+107AE", "U+107AF", "U+107B0",
   "U+107B2", "U+107B3", "U+107B4", "U+107B5", "U+107B6", "U+107B7", "U+107B8", "U+107B9", "U+107BA", "U+10A01",
   "U+10A02", "U+10A03", "U+10A05", "U+10A06", "U+10A0C", "U+10A0D", "U+10A0E", "U+10A0F", "U+10A38", "U+10A39",
   "U+10A3A", "U+10A3F", "U+10AE5", "U+10AE6", "U+10D24", "U+10D25", "U+10D26", "U+10D27", "U+10EAB", "U+10EAC",
   "U+10F46", "U+10F47", "U+10F48", "U+10F49", "U+10F4A", "U+10F4B", "U+10F4C", "U+10F4D", "U+10F4E", "U+10F4F",
   "U+10F50", "U+10F82", "U+10F83", "U+10F84", "U+10F85", "U+11001", "U+11038", "U+11039", "U+1103A", "U+1103B",
   "U+1103C", "U+1103D", "U+1103E", "U+1103F", "U+11040", "U+11041", "U+11042", "U+11043", "U+11044", "U+11045",
   "U+11046", "U+11070", "U+11073", "U+11074", "U+1107F", "U+11080", "U+11081", "U+110B3", "U+110B4", "U+110B5",
   "U+110B6", "U+110B9", "U+110BA", "U+110BD", "U+110C2", "U+110CD", "U+11100", "U+11101", "U+11102", "U+11127",
   "U+11128", "U+11129", "U+1112A", "U+1112B", "U+1112D", "U+1112E", "U+1112F", "U+11130", "U+11131", "U+11132",
   "U+11133", "U+11134", "U+11173", "U+11180", "U+11181", "U+111B6", "U+111B7", "U+111B8", "U+111B9", "U+111BA",
   "U+111BB", "U+111BC", "U+111BD", "U+111BE", "U+111C9", "U+111CA", "U+111CB", "U+111CC", "U+111CF", "U+1122F",
   "U+11230", "U+11231", "U+11234", "U+11236", "U+11237", "U+1123E", "U+112DF", "U+112E3", "U+112E4", "U+112E5",
   "U+112E6", "U+112E7", "U+112E8", "U+112E9", "U+112EA", "U+11300", "U+11301", "U+1133B", "U+1133C", "U+11340",
   "U+11366", "U+11367", "U+11368", "U+11369", "U+1136A", "U+1136B", "U+1136C", "U+11370", "U+11371", "U+11372",
   "U+11373", "U+11374", "U+11438", "U+11439", "U+1143A", "U+1143B", "U+1143C", "U+1143D", "U+1143E", "U+1143F",
   "U+11442", "U+11443", "U+11444", "U+11446", "U+1145E", "U+114B3", "U+114B4", "U+114B5", "U+114B6", "U+114B7",
   "U+114B8", "U+114BA", "U+114BF", "U+114C0", "U+114C2", "U+114C3", "U+115B2", "U+115B3", "U+115B4", "U+115B5",
   "U+115BC", "U+115BD", "U+115BF", "U+115C0", "U+115DC", "U+115DD", "U+11633", "U+11634", "U+11635", "U+11636",
   "U+11637", "U+11638", "U+11639", "U+1163A", "U+1163D", "U+1163F", "U+11640", "U+116AB", "U+116AD", "U+116B0",
   "U+116B1", "U+116B2", "U+116B3", "U+116B4", "U+116B5", "U+116B7", "U+1171D", "U+1171E", "U+1171F", "U+11722",
   "U+11723", "U+11724", "U+11725", "U+11727", "U+11728", "U+11729", "U+1172A", "U+1172B", "U+1182F", "U+11830",
   "U+11831", "U+11832", "U+11833", "U+11834", "U+11835", "U+11836", "U+11837", "U+11839", "U+1183A", "U+1193B",
   "U+1193C", "U+1193E", "U+11943", "U+119D4", "U+119D5", "U+119D6", "U+119D7", "U+119DA", "U+119DB", "U+119E0",
   "U+11A01", "U+11A02", "U+11A03", "U+11A04", "U+11A05", "U+11A06", "U+11A07", "U+11A08", "U+11A09", "U+11A0A",
   "U+11A33", "U+11A34", "U+11A35", "U+11A36", "U+11A37", "U+11A38", "U+11A3B", "U+11A3C", "U+11A3D", "U+11A3E",
   "U+11A47", "U+11A51", "U+11A52", "U+11A53", "U+11A54", "U+11A55", "U+11A56", "U+11A59", "U+11A5A", "U+11A5B",
   "U+11A8A", "U+11A8B", "U+11A8C", "U+11A8D", "U+11A8E", "U+11A8F", "U+11A90", "U+11A91", "U+11A92", "U+11A93",
   "U+11A94", "U+11A95", "U+11A96", "U+11A98", "U+11A99", "U+11C30", "U+11C31", "U+11C32", "U+11C33", "U+11C34",
   "U+11C35", "U+11C36", "U+11C38", "U+11C39", "U+11C3A", "U+11C3B", "U+11C3C", "U+11C3D", "U+11C3F", "U+11C92",
   "U+11C93", "U+11C94", "U+11C95", "U+11C96", "U+11C97", "U+11C98", "U+11C99", "U+11C9A", "U+11C9B", "U+11C9C",
   "U+11C9D", "U+11C9E", "U+11C9F", "U+11CA0", "U+11CA1", "U+11CA2", "U+11CA3", "U+11CA4", "U+11CA5", "U+11CA6",
   "U+11CA7", "U+11CAA", "U+11CAB", "U+11CAC", "U+11CAD", "U+11CAE", "U+11CAF", "U+11CB0", "U+11CB2", "U+11CB3",
   "U+11CB5", "U+11CB6", "U+11D31", "U+11D32", "U+11D33", "U+11D34", "U+11D35", "U+11D36", "U+11D3A", "U+11D3C",
   "U+11D3D", "U+11D3F", "U+11D40", "U+11D41", "U+11D42", "U+11D43", "U+11D44", "U+11D45", "U+11D47", "U+11D90",
   "U+11D91", "U+11D95", "U+11D97", "U+11EF3", "U+11EF4", "U+13430", "U+13431", "U+13432", "U+13433", "U+13434",
   "U+13435", "U+13436", "U+13437", "U+13438", "U+16AF0", "U+16AF1", "U+16AF2", "U+16AF3", "U+16AF4", "U+16B30",
   "U+16B31", "U+16B32", "U+16B33", "U+16B34", "U+16B35", "U+16B36", "U+16B40", "U+16B41", "U+16B42", "U+16B43",
   "U+16F4F", "U+16F8F", "U+16F90", "U+16F91", "U+16F92", "U+16F93", "U+16F94", "U+16F95", "U+16F96", "U+16F97",
   "U+16F98", "U+16F99", "U+16F9A", "U+16F9B", "U+16F9C", "U+16F9D", "U+16F9E", "U+16F9F", "U+16FE0", "U+16FE1",
   "U+16FE3", "U+16FE4", "U+1AFF0", "U+1AFF1", "U+1AFF2", "U+1AFF3", "U+1AFF5", "U+1AFF6", "U+1AFF7", "U+1AFF8",
   "U+1AFF9", "U+1AFFA", "U+1AFFB", "U+1AFFD", "U+1AFFE", "U+1BC9D", "U+1BC9E", "U+1BCA0", "U+1BCA1", "U+1BCA2",
   "U+1BCA3", "U+1CF00", "U+1CF01", "U+1CF02", "U+1CF03", "U+1CF04", "U+1CF05", "U+1CF06", "U+1CF07", "U+1CF08",
   "U+1CF09", "U+1CF0A", "U+1CF0B", "U+1CF0C", "U+1CF0D", "U+1CF0E", "U+1CF0F", "U+1CF10", "U+1CF11", "U+1CF12",
   "U+1CF13", "U+1CF14", "U+1CF15", "U+1CF16", "U+1CF17", "U+1CF18", "U+1CF19", "U+1CF1A", "U+1CF1B", "U+1CF1C",
   "U+1CF1D", "U+1CF1E", "U+1CF1F", "U+1CF20", "U+1CF21", "U+1CF22", "U+1CF23", "U+1CF24", "U+1CF25", "U+1CF26",
   "U+1CF27", "U+1CF28", "U+1CF29", "U+1CF2A", "U+1CF2B", "U+1CF2C", "U+1CF2D", "U+1CF30", "U+1CF31", "U+1CF32",
   "U+1CF33", "U+1CF34", "U+1CF35", "U+1CF36", "U+1CF37", "U+1CF38", "U+1CF39", "U+1CF3A", "U+1CF3B", "U+1CF3C",
   "U+1CF3D", "U+1CF3E", "U+1CF3F", "U+1CF40", "U+1CF41", "U+1CF42", "U+1CF43", "U+1CF44", "U+1CF45", "U+1CF46",
   "U+1D167", "U+1D168", "U+1D169", "U+1D173", "U+1D174", "U+1D175", "U+1D176", "U+1D177", "U+1D178", "U+1D179",
   "U+1D17A", "U+1D17B", "U+1D17C", "U+1D17D", "U+1D17E", "U+1D17F", "U+1D180", "U+1D181", "U+1D182", "U+1D185",
   "U+1D186", "U+1D187", "U+1D188", "U+1D189", "U+1D18A", "U+1D18B", "U+1D1AA", "U+1D1AB", "U+1D1AC", "U+1D1AD",
   "U+1D242", "U+1D243", "U+1D244", "U+1DA00", "U+1DA01", "U+1DA02", "U+1DA03", "U+1DA04", "U+1DA05", "U+1DA06",
   "U+1DA07", "U+1DA08", "U+1DA09", "U+1DA0A", "U+1DA0B", "U+1DA0C", "U+1DA0D", "U+1DA0E", "U+1DA0F", "U+1DA10",
   "U+1DA11", "U+1DA12", "U+1DA13", "U+1DA14", "U+1DA15", "U+1DA16", "U+1DA17", "U+1DA18", "U+1DA19", "U+1DA1A",
   "U+1DA1B", "U+1DA1C", "U+1DA1D", "U+1DA1E", "U+1DA1F", "U+1DA20", "U+1DA21", "U+1DA22", "U+1DA23", "U+1DA24",
   "U+1DA25", "U+1DA26", "U+1DA27", "U+1DA28", "U+1DA29", "U+1DA2A", "U+1DA2B", "U+1DA2C", "U+1DA2D", "U+1DA2E",
   "U+1DA2F", "U+1DA30", "U+1DA31", "U+1DA32", "U+1DA33", "U+1DA34", "U+1DA35", "U+1DA36", "U+1DA3B", "U+1DA3C",
   "U+1DA3D", "U+1DA3E", "U+1DA3F", "U+1DA40", "U+1DA41", "U+1DA42", "U+1DA43", "U+1DA44", "U+1DA45", "U+1DA46",
   "U+1DA47", "U+1DA48", "U+1DA49", "U+1DA4A", "U+1DA4B", "U+1DA4C", "U+1DA4D", "U+1DA4E", "U+1DA4F", "U+1DA50",
   "U+1DA51", "U+1DA52", "U+1DA53", "U+1DA54", "U+1DA55", "U+1DA56", "U+1DA57", "U+1DA58", "U+1DA59", "U+1DA5A",
   "U+1DA5B", "U+1DA5C", "U+1DA5D", "U+1DA5E", "U+1DA5F", "U+1DA60", "U+1DA61", "U+1DA62", "U+1DA63", "U+1DA64",
   "U+1DA65", "U+1DA66", "U+1DA67", "U+1DA68", "U+1DA69", "U+1DA6A", "U+1DA6B", "U+1DA6C", "U+1DA75", "U+1DA84",
   "U+1DA9B", "U+1DA9C", "U+1DA9D", "U+1DA9E", "U+1DA9F", "U+1DAA1", "U+1DAA2", "U+1DAA3", "U+1DAA4", "U+1DAA5",
   "U+1DAA6", "U+1DAA7", "U+1DAA8", "U+1DAA9", "U+1DAAA", "U+1DAAB", "U+1DAAC", "U+1DAAD", "U+1DAAE", "U+1DAAF",
   "U+1E000", "U+1E001", "U+1E002", "U+1E003", "U+1E004", "U+1E005", "U+1E006", "U+1E008", "U+1E009", "U+1E00A",
   "U+1E00B", "U+1E00C", "U+1E00D", "U+1E00E", "U+1E00F", "U+1E010", "U+1E011", "U+1E012", "U+1E013", "U+1E014",
   "U+1E015", "U+1E016", "U+1E017", "U+1E018", "U+1E01B", "U+1E01C", "U+1E01D", "U+1E01E", "U+1E01F", "U+1E020",
   "U+1E021", "U+1E023", "U+1E024", "U+1E026", "U+1E027", "U+1E028", "U+1E029", "U+1E02A", "U+1E130", "U+1E131",
   "U+1E132", "U+1E133", "U+1E134", "U+1E135", "U+1E136", "U+1E137", "U+1E138", "U+1E139", "U+1E13A", "U+1E13B",
   "U+1E13C", "U+1E13D", "U+1E2AE", "U+1E2EC", "U+1E2ED", "U+1E2EE", "U+1E2EF", "U+1E8D0", "U+1E8D1", "U+1E8D2",
   "U+1E8D3", "U+1E8D4", "U+1E8D5", "U+1E8D6", "U+1E944", "U+1E945", "U+1E946", "U+1E947", "U+1E948", "U+1E949",
   "U+1E94A", "U+1E94B", "U+1F3FB", "U+1F3FC", "U+1F3FD", "U+1F3FE", "U+1F3FF", "U+E0001", "U+E0020", "U+E0021",
   "U+E0022", "U+E0023", "U+E0024", "U+E0025", "U+E0026", "U+E0027", "U+E0028", "U+E0029", "U+E002A", "U+E002B",
   "U+E002C", "U+E002D", "U+E002E", "U+E002F", "U+E0030", "U+E0031", "U+E0032", "U+E0033", "U+E0034", "U+E0035",
   "U+E0036", "U+E0037", "U+E0038", "U+E0039", "U+E003A", "U+E003B", "U+E003C", "U+E003D", "U+E003E", "U+E003F",
   "U+E0040", "U+E0041", "U+E0042", "U+E0043", "U+E0044", "U+E0045", "U+E0046", "U+E0047", "U+E0048", "U+E0049",
   "U+E004A", "U+E004B", "U+E004C", "U+E004D", "U+E004E", "U+E004F", "U+E0050", "U+E0051", "U+E0052", "U+E0053",
   "U+E0054", "U+E0055", "U+E0056", "U+E0057", "U+E0058", "U+E0059", "U+E005A", "U+E005B", "U+E005C", "U+E005D",
   "U+E005E", "U+E005F", "U+E0060", "U+E0061", "U+E0062", "U+E0063", "U+E0064", "U+E0065", "U+E0066", "U+E0067",
   "U+E0068", "U+E0069", "U+E006A", "U+E006B", "U+E006C", "U+E006D", "U+E006E", "U+E006F", "U+E0070", "U+E0071",
   "U+E0072", "U+E0073", "U+E0074", "U+E0075", "U+E0076", "U+E0077", "U+E0078", "U+E0079", "U+E007A", "U+E007B",
   "U+E007C", "U+E007D", "U+E007E", "U+E007F", "U+E0100", "U+E0101", "U+E0102", "U+E0103", "U+E0104", "U+E0105",
   "U+E0106", "U+E0107", "U+E0108", "U+E0109", "U+E010A", "U+E010B", "U+E010C", "U+E010D", "U+E010E", "U+E010F",
   "U+E0110", "U+E0111", "U+E0112", "U+E0113", "U+E0114", "U+E0115", "U+E0116", "U+E0117", "U+E0118", "U+E0119",
   "U+E011A", "U+E011B", "U+E011C", "U+E011D", "U+E011E", "U+E011F", "U+E0120", "U+E0121", "U+E0122", "U+E0123",
   "U+E0124", "U+E0125", "U+E0126", "U+E0127", "U+E0128", "U+E0129", "U+E012A", "U+E012B", "U+E012C", "U+E012D",
   "U+E012E", "U+E012F", "U+E0130", "U+E0131", "U+E0132", "U+E0133", "U+E0134", "U+E0135", "U+E0136", "U+E0137",
   "U+E0138", "U+E0139", "U+E013A", "U+E013B", "U+E013C", "U+E013D", "U+E013E", "U+E013F", "U+E0140", "U+E0141",
   "U+E0142", "U+E0143", "U+E0144", "U+E0145", "U+E0146", "U+E0147", "U+E0148", "U+E0149", "U+E014A", "U+E014B",
   "U+E014C", "U+E014D", "U+E014E", "U+E014F", "U+E0150", "U+E0151", "U+E0152", "U+E0153", "U+E0154", "U+E0155",
   "U+E0156", "U+E0157", "U+E0158", "U+E0159", "U+E015A", "U+E015B", "U+E015C", "U+E015D", "U+E015E", "U+E015F",
   "U+E0160", "U+E0161", "U+E0162", "U+E0163", "U+E0164", "U+E0165", "U+E0166", "U+E0167", "U+E0168", "U+E0169",
   "U+E016A", "U+E016B", "U+E016C", "U+E016D", "U+E016E", "U+E016F", "U+E0170", "U+E0171", "U+E0172", "U+E0173",
   "U+E0174", "U+E0175", "U+E0176", "U+E0177", "U+E0178", "U+E0179", "U+E017A", "U+E017B", "U+E017C", "U+E017D",
   "U+E017E", "U+E017F", "U+E0180", "U+E0181", "U+E0182", "U+E0183", "U+E0184", "U+E0185", "U+E0186", "U+E0187",
   "U+E0188", "U+E0189", "U+E018A", "U+E018B", "U+E018C", "U+E018D", "U+E018E", "U+E018F", "U+E0190", "U+E0191",
   "U+E0192", "U+E0193", "U+E0194", "U+E0195", "U+E0196", "U+E0197", "U+E0198", "U+E0199", "U+E019A", "U+E019B",
   "U+E019C", "U+E019D", "U+E019E", "U+E019F", "U+E01A0", "U+E01A1", "U+E01A2", "U+E01A3", "U+E01A4", "U+E01A5",
   "U+E01A6", "U+E01A7", "U+E01A8", "U+E01A9", "U+E01AA", "U+E01AB", "U+E01AC", "U+E01AD", "U+E01AE", "U+E01AF",
   "U+E01B0", "U+E01B1", "U+E01B2", "U+E01B3", "U+E01B4", "U+E01B5", "U+E01B6", "U+E01B7", "U+E01B8", "U+E01B9",
   "U+E01BA", "U+E01BB", "U+E01BC", "U+E01BD", "U+E01BE", "U+E01BF", "U+E01C0", "U+E01C1", "U+E01C2", "U+E01C3",
   "U+E01C4", "U+E01C5", "U+E01C6", "U+E01C7", "U+E01C8", "U+E01C9", "U+E01CA", "U+E01CB", "U+E01CC", "U+E01CD",
   "U+E01CE", "U+E01CF", "U+E01D0", "U+E01D1", "U+E01D2", "U+E01D3", "U+E01D4", "U+E01D5", "U+E01D6", "U+E01D7",
   "U+E01D8", "U+E01D9", "U+E01DA", "U+E01DB", "U+E01DC", "U+E01DD", "U+E01DE", "U+E01DF", "U+E01E0", "U+E01E1",
   "U+E01E2", "U+E01E3", "U+E01E4", "U+E01E5", "U+E01E6", "U+E01E7", "U+E01E8", "U+E01E9", "U+E01EA", "U+E01EB",
   "U+E01EC", "U+E01ED", "U+E01EE", "U+E01EF"}

\* The characters str.encode('utf-8') refuses: the surrogates.
Surrogates ==
  {"U+D800", "U+D801", "U+D802", "U+D803", "U+D804", "U+D805", "U+D806", "U+D807", "U+D808", "U+D809", "U+D80A",
   "U+D80B", "U+D80C", "U+D80D", "U+D80E", "U+D80F", "U+D810", "U+D811", "U+D812", "U+D813", "U+D814", "U+D815",
   "U+D816", "U+D817", "U+D818", "U+D819", "U+D81A", "U+D81B", "U+D81C", "U+D81D", "U+D81E", "U+D81F", "U+D820",
   "U+D821", "U+D822", "U+D823", "U+D824", "U+D825", "U+D826", "U+D827", "U+D828", "U+D829", "U+D82A", "U+D82B",
   "U+D82C", "U+D82D", "U+D82E", "U+D82F", "U+D830", "U+D831", "U+D832", "U+D833", "U+D834", "U+D835", "U+D836",
   "U+D837", "U+D838", "U+D839", "U+D83A", "U+D83B", "U+D83C", "U+D83D", "U+D83E", "U+D83F", "U+D840", "U+D841",
   "U+D842", "U+D843", "U+D844", "U+D845", "U+D846", "U+D847", "U+D848", "U+D849", "U+D84A", "U+D84B", "U+D84C",
   "U+D84D", "U+D84E", "U+D84F", "U+D850", "U+D851", "U+D852", "U+D853", "U+D854", "U+D855", "U+D856", "U+D857",
   "U+D858", "U+D859", "U+D85A", "U+D85B", "U+D85C", "U+D85D", "U+D85E", "U+D85F", "U+D860", "U+D861", "U+D862",
   "U+D863", "U+D864", "U+D865", "U+D866", "U+D867", "U+D868", "U+D869", "U+D86A", "U+D86B", "U+D86C", "U+D86D",
   "U+D86E", "U+D86F", "U+D870", "U+D871", "U+D872", "U+D873", "U+D874", "U+D875", "U+D876", "U+D877", "U+D878",
   "U+D879", "U+D87A", "U+D87B", "U+D87C", "U+D87D", "U+D87E", "U+D87F", "U+D880", "U+D881", "U+D882", "U+D883",
   "U+D884", "U+D885", "U+D886", "U+D887", "U+D888", "U+D889", "U+D88A", "U+D88B", "U+D88C", "U+D88D", "U+D88E",
   "U+D88F", "U+D890", "U+D891", "U+D892", "U+D893", "U+D894", "U+D895", "U+D896", "U+D897", "U+D898", "U+D899",
   "U+D89A", "U+D89B", "U+D89C", "U+D89D", "U+D89E", "U+D89F", "U+D8A0", "U+D8A1", "U+D8A2", "U+D8A3", "U+D8A4",
   "U+D8A5", "U+D8A6", "U+D8A7", "U+D8A8", "U+D8A9", "U+D8AA", "U+D8AB", "U+D8AC", "U+D8AD", "U+D8AE", "U+D8AF",
   "U+D8B0", "U+D8B1", "U+D8B2", "U+D8B3", "U+D8B4", "U+D8B5", "U+D8B6", "U+D8B7", "U+D8B8", "U+D8B9", "U+D8BA",
   "U+D8BB", "U+D8BC", "U+D8BD", "U+D8BE", "U+D8BF", "U+D8C0", "U+D8C1", "U+D8C2", "U+D8C3", "U+D8C4", "U+D8C5",
   "U+D8C6", "U+D8C7", "U+D8C8", "U+D8C9", "U+D8CA", "U+D8CB", "U+D8CC", "U+D8CD", "U+D8CE", "U+D8CF", "U+D8D0",
   "U+D8D1", "U+D8D2", "U+D8D3", "U+D8D4", "U+D8D5", "U+D8D6", "U+D8D7", "U+D8D8", "U+D8D9", "U+D8DA", "U+D8DB",
   "U+D8DC", "U+D8DD", "U+D8DE", "U+D8DF", "U+D8E0", "U+D8E1", "U+D8E2", "U+D8E3", "U+D8E4", "U+D8E5", "U+D8E6",
   "U+D8E7", "U+D8E8", "U+D8E9", "U+D8EA", "U+D8EB", "U+D8EC", "U+D8ED", "U+D8EE", "U+D8EF", "U+D8F0", "U+D8F1",
   "U+D8F2", "U+D8F3", "U+D8F4", "U+D8F5", "U+D8F6", "U+D8F7", "U+D8F8", "U+D8F9", "U+D8FA", "U+D8FB", "U+D8FC",
   "U+D8FD", "U+D8FE", "U+D8FF", "U+D900", "U+D901", "U+D902", "U+D903", "U+D904", "U+D905", "U+D906", "U+D907",
   "U+D908", "U+D909", "U+D90A", "U+D90B", "U+D90C", "U+D90D", "U+D90E", "U+D90F", "U+D910", "U+D911", "U+D912",
   "U+D913", "U+D914", "U+D915", "U+D916", "U+D917", "U+D918", "U+D919", "U+D91A", "U+D91B", "U+D91C", "U+D91D",
   "U+D91E", "U+D91F", "U+D920", "U+D921", "U+D922", "U+D923", "U+D924", "U+D925", "U+D926", "U+D927", "U+D928",
   "U+D929", "U+D92A", "U+D92B", "U+D92C", "U+D92D", "U+D92E", "U+D92F", "U+D930", "U+D931", "U+D932", "U+D933",
   "U+D934", "U+D935", "U+D936", "U+D937", "U+D938", "U+D939", "U+D93A", "U+D93B", "U+D93C", "U+D93D", "U+D93E",
   "U+D93F", "U+D940", "U+D941", "U+D942", "U+D943", "U+D944", "U+D945", "U+D946", "U+D947", "U+D948", "U+D949",
   "U+D94A", "U+D94B", "U+D94C", "U+D94D", "U+D94E", "U+D94F", "U+D950", "U+D951", "U+D952", "U+D953", "U+D954",
   "U+D955", "U+D956", "U+D957", "U+D958", "U+D959", "U+D95A", "U+D95B", "U+D95C", "U+D95D", "U+D95E", "U+D95F",
   "U+D960", "U+D961", "U+D962", "U+D963", "U+D964", "U+D965", "U+D966", "U+D967", "U+D968", "U+D969", "U+D96A",
   "U+D96B", "U+D96C", "U+D96D", "U+D96E", "U+D96F", "U+D970", "U+D971", "U+D972", "U+D973", "U+D974", "U+D975",
   "U+D976", "U+D977", "U+D978", "U+D979", "U+D97A", "U+D97B", "U+D97C", "U+D97D", "U+D97E", "U+D97F", "U+D980",
   "U+D981", "U+D982", "U+D983", "U+D984", "U+D985", "U+D986", "U+D987", "U+D988", "U+D989", "U+D98A", "U+D98B",
   "U+D98C", "U+D98D", "U+D98E", "U+D98F", "U+D990", "U+D991", "U+D992", "U+D993", "U+D994", "U+D995", "U+D996",
   "U+D997", "U+D998", "U+D999", "U+D99A", "U+D99B", "U+D99C", "U+D99D", "U+D99E", "U+D99F", "U+D9A0", "U+D9A1",
   "U+D9A2", "U+D9A3", "U+D9A4", "U+D9A5", "U+D9A6", "U+D9A7", "U+D9A8", "U+D9A9", "U+D9AA", "U+D9AB", "U+D9AC",
   "U+D9AD", "U+D9AE", "U+D9AF", "U+D9B0", "U+D9B1", "U+D9B2", "U+D9B3", "U+D9B4", "U+D9B5", "U+D9B6", "U+D9B7",
   "U+D9B8", "U+D9B9", "U+D9BA", "U+D9BB", "U+D9BC", "U+D9BD", "U+D9BE", "U+D9BF", "U+D9C0", "U+D9C1", "U+D9C2",
   "U+D9C3", "U+D9C4", "U+D9C5", "U+D9C6", "U+D9C7", "U+D9C8", "U+D9C9", "U+D9CA", "U+D9CB", "U+D9CC", "U+D9CD",
   "U+D9CE", "U+D9CF", "U+D9D0", "U+D9D1", "U+D9D2", "U+D9D3", "U+D9D4", "U+D9D5", "U+D9D6", "U+D9D7", "U+D9D8",
   "U+D9D9", "U+D9DA", "U+D9DB", "U+D9DC", "U+D9DD", "U+D9DE", "U+D9DF", "U+D9E0", "U+D9E1", "U+D9E2", "U+D9E3",
   "U+D9E4", "U+D9E5", "U+D9E6", "U+D9E7", "U+D9E8", "U+D9E9", "U+D9EA", "U+D9EB", "U+D9EC", "U+D9ED", "U+D9EE",
   "U+D9EF", "U+D9F0", "U+D9F1", "U+D9F2", "U+D9F3", "U+D9F4", "U+D9F5", "U+D9F6", "U+D9F7", "U+D9F8", "U+D9F9",
   "U+D9FA", "U+D9FB", "U+D9FC", "U+D9FD", "U+D9FE", "U+D9FF", "U+DA00", "U+DA01", "U+DA02", "U+DA03", "U+DA04",
   "U+DA05", "U+DA06", "U+DA07", "U+DA08", "U+DA09", "U+DA0A", "U+DA0B", "U+DA0C", "U+DA0D", "U+DA0E", "U+DA0F",
   "U+DA10", "U+DA11", "U+DA12", "U+DA13", "U+DA14", "U+DA15", "U+DA16", "U+DA17", "U+DA18", "U+DA19", "U+DA1A",
   "U+DA1B", "U+DA1C", "U+DA1D", "U+DA1E", "U+DA1F", "U+DA20", "U+DA21", "U+DA22", "U+DA23", "U+DA24", "U+DA25",
   "U+DA26", "U+DA27", "U+DA28", "U+DA29", "U+DA2A", "U+DA2B", "U+DA2C", "U+DA2D", "U+DA2E", "U+DA2F", "U+DA30",
   "U+DA31", "U+DA32", "U+DA33", "U+DA34", "U+DA35", "U+DA36", "U+DA37", "U+DA38", "U+DA39", "U+DA3A", "U+DA3B",
   "U+DA3C", "U+DA3D", "U+DA3E", "U+DA3F", "U+DA40", "U+DA41", "U+DA42", "U+DA43", "U+DA44", "U+DA45", "U+DA46",
   "U+DA47", "U+DA48", "U+DA49", "U+DA4A", "U+DA4B", "U+DA4C", "U+DA4D", "U+DA4E", "U+DA4F", "U+DA50", "U+DA51",
   "U+DA52", "U+DA53", "U+DA54", "U+DA55", "U+DA56", "U+DA57", "U+DA58", "U+DA59", "U+DA5A", "U+DA5B", "U+DA5C",
   "U+DA5D", "U+DA5E", "U+DA5F", "U+DA60", "U+DA61", "U+DA62", "U+DA63", "U+DA64", "U+DA65", "U+DA66", "U+DA67",
   "U+DA68", "U+DA69", "U+DA6A", "U+DA6B", "U+DA6C", "U+DA6D", "U+DA6E", "U+DA6F", "U+DA70", "U+DA71", "U+DA72",
   "U+DA73", "U+DA74", "U+DA75", "U+DA76", "U+DA77", "U+DA78", "U+DA79", "U+DA7A", "U+DA7B", "U+DA7C", "U+DA7D",
   "U+DA7E", "U+DA7F", "U+DA80", "U+DA81", "U+DA82", "U+DA83", "U+DA84", "U+DA85", "U+DA86", "U+DA87", "U+DA88",
   "U+DA89", "U+DA8A", "U+DA8B", "U+DA8C", "U+DA8D", "U+DA8E", "U+DA8F", "U+DA90", "U+DA91", "U+DA92", "U+DA93",
   "U+DA94", "U+DA95", "U+DA96", "U+DA97", "U+DA98", "U+DA99", "U+DA9A", "U+DA9B", "U+DA9C", "U+DA9D", "U+DA9E",
   "U+DA9F", "U+DAA0", "U+DAA1", "U+DAA2", "U+DAA3", "U+DAA4", "U+DAA5", "U+DAA6", "U+DAA7", "U+DAA8", "U+DAA9",
   "U+DAAA", "U+DAAB", "U+DAAC", "U+DAAD", "U+DAAE", "U+DAAF", "U+DAB0", "U+DAB1", "U+DAB2", "U+DAB3", "U+DAB4",
   "U+DAB5", "U+DAB6", "U+DAB7", "U+DAB8", "U+DAB9", "U+DABA", "U+DABB", "U+DABC", "U+DABD", "U+DABE", "U+DABF",
   "U+DAC0", "U+DAC1", "U+DAC2", "U+DAC3", "U+DAC4", "U+DAC5", "U+DAC6", "U+DAC7", "U+DAC8", "U+DAC9", "U+DACA",
   "U+DACB", "U+DACC", "U+DACD", "U+DACE", "U+DACF", "U+DAD0", "U+DAD1", "U+DAD2", "U+DAD3", "U+DAD4", "U+DAD5",
   "U+DAD6", "U+DAD7", "U+DAD8", "U+DAD9", "U+DADA", "U+DADB", "U+DADC", "U+DADD", "U+DADE", "U+DADF", "U+DAE0",
   "U+DAE1", "U+DAE2", "U+DAE3", "U+DAE4", "U+DAE5", "U+DAE6", "U+DAE7", "U+DAE8", "U+DAE9", "U+DAEA", "U+DAEB",
   "U+DAEC", "U+DAED", "U+DAEE", "U+DAEF", "U+DAF0", "U+DAF1", "U+DAF2", "U+DAF3", "U+DAF4", "U+DAF5", "U+DAF6",
   "U+DAF7", "U+DAF8", "U+DAF9", "U+DAFA", "U+DAFB", "U+DAFC", "U+DAFD", "U+DAFE", "U+DAFF", "U+DB00", "U+DB01",
   "U+DB02", "U+DB03", "U+DB04", "U+DB05", "U+DB06", "U+DB07", "U+DB08", "U+DB09", "U+DB0A", "U+DB0B", "U+DB0C",
   "U+DB0D", "U+DB0E", "U+DB0F", "U+DB10", "U+DB11", "U+DB12", "U+DB13", "U+DB14", "U+DB15", "U+DB16", "U+DB17",
   "U+DB18", "U+DB19", "U+DB1A", "U+DB1B", "U+DB1C", "U+DB1D", "U+DB1E", "U+DB1F", "U+DB20", "U+DB21", "U+DB22",
   "U+DB23", "U+DB24", "U+DB25", "U+DB26", "U+DB27", "U+DB28", "U+DB29", "U+DB2A", "U+DB2B", "U+DB2C", "U+DB2D",
   "U+DB2E", "U+DB2F", "U+DB30", "U+DB31", "U+DB32", "U+DB33", "U+DB34", "U+DB35", "U+DB36", "U+DB37", "U+DB38",
   "U+DB39", "U+DB3A", "U+DB3B", "U+DB3C", "U+DB3D", "U+DB3E", "U+DB3F", "U+DB40", "U+DB41", "U+DB42", "U+DB43",
   "U+DB44", "U+DB45", "U+DB46", "U+DB47", "U+DB48", "U+DB49", "U+DB4A", "U+DB4B", "U+DB4C", "U+DB4D", "U+DB4E",
   "U+DB4F", "U+DB50", "U+DB51", "U+DB52", "U+DB53", "U+DB54", "U+DB55", "U+DB56", "U+DB57", "U+DB58", "U+DB59",
   "U+DB5A", "U+DB5B", "U+DB5C", "U+DB5D", "U+DB5E", "U+DB5F", "U+DB60", "U+DB61", "U+DB62", "U+DB63", "U+DB64",
   "U+DB65", "U+DB66", "U+DB67", "U+DB68", "U+DB69", "U+DB6A", "U+DB6B", "U+DB6C", "U+DB6D", "U+DB6E", "U+DB6F",
   "U+DB70", "U+DB71", "U+DB72", "U+DB73", "U+DB74", "U+DB75", "U+DB76", "U+DB77", "U+DB78", "U+DB79", "U+DB7A",
   "U+DB7B", "U+DB7C", "U+DB7D", "U+DB7E", "U+DB7F", "U+DB80", "U+DB81", "U+DB82", "U+DB83", "U+DB84", "U+DB85",
   "U+DB86", "U+DB87", "U+DB88", "U+DB89", "U+DB8A", "U+DB8B", "U+DB8C", "U+DB8D", "U+DB8E", "U+DB8F", "U+DB90",
   "U+DB91", "U+DB92", "U+DB93", "U+DB94", "U+DB95", "U+DB96", "U+DB97", "U+DB98", "U+DB99", "U+DB9A", "U+DB9B",
   "U+DB9C", "U+DB9D", "U+DB9E", "U+DB9F", "U+DBA0", "U+DBA1", "U+DBA2", "U+DBA3", "U+DBA4", "U+DBA5", "U+DBA6",
   "U+DBA7", "U+DBA8", "U+DBA9", "U+DBAA", "U+DBAB", "U+DBAC", "U+DBAD", "U+DBAE", "U+DBAF", "U+DBB0", "U+DBB1",
   "U+DBB2", "U+DBB3", "U+DBB4", "U+DBB5", "U+DBB6", "U+DBB7", "U+DBB8", "U+DBB9", "U+DBBA", "U+DBBB", "U+DBBC",
   "U+DBBD", "U+DBBE", "U+DBBF", "U+DBC0", "U+DBC1", "U+DBC2", "U+DBC3", "U+DBC4", "U+DBC5", "U+DBC6", "U+DBC7",
   "U+DBC8", "U+DBC9", "U+DBCA", "U+DBCB", "U+DBCC", "U+DBCD", "U+DBCE", "U+DBCF", "U+DBD0", "U+DBD1", "U+DBD2",
   "U+DBD3", "U+DBD4", "U+DBD5", "U+DBD6", "U+DBD7", "U+DBD8", "U+DBD9", "U+DBDA", "U+DBDB", "U+DBDC", "U+DBDD",
   "U+DBDE", "U+DBDF", "U+DBE0", "U+DBE1", "U+DBE2", "U+DBE3", "U+DBE4", "U+DBE5", "U+DBE6", "U+DBE7", "U+DBE8",
   "U+DBE9", "U+DBEA", "U+DBEB", "U+DBEC", "U+DBED", "U+DBEE", "U+DBEF", "U+DBF0", "U+DBF1", "U+DBF2", "U+DBF3",
   "U+DBF4", "U+DBF5", "U+DBF6", "U+DBF7", "U+DBF8", "U+DBF9", "U+DBFA", "U+DBFB", "U+DBFC", "U+DBFD", "U+DBFE",
   "U+DBFF", "U+DC00", "U+DC01", "U+DC02", "U+DC03", "U+DC04", "U+DC05", "U+DC06", "U+DC07", "U+DC08", "U+DC09",
   "U+DC0A", "U+DC0B", "U+DC0C", "U+DC0D", "U+DC0E", "U+DC0F", "U+DC10", "U+DC11", "U+DC12", "U+DC13", "U+DC14",
   "U+DC15", "U+DC16", "U+DC17", "U+DC18", "U+DC19", "U+DC1A", "U+DC1B", "U+DC1C", "U+DC1D", "U+DC1E", "U+DC1F",
   "U+DC20", "U+DC21", "U+DC22", "U+DC23", "U+DC24", "U+DC25", "U+DC26", "U+DC27", "U+DC28", "U+DC29", "U+DC2A",
   "U+DC2B", "U+DC2C", "U+DC2D", "U+DC2E", "U+DC2F", "U+DC30", "U+DC31", "U+DC32", "U+DC33", "U+DC34", "U+DC35",
   "U+DC36", "U+DC37", "U+DC38", "U+DC39", "U+DC3A", "U+DC3B", "U+DC3C", "U+DC3D", "U+DC3E", "U+DC3F", "U+DC40",
   "U+DC41", "U+DC42", "U+DC43", "U+DC44", "U+DC45", "U+DC46", "U+DC47", "U+DC48", "U+DC49", "U+DC4A", "U+DC4B",
   "U+DC4C", "U+DC4D", "U+DC4E", "U+DC4F", "U+DC50", "U+DC51", "U+DC52", "U+DC53", "U+DC54", "U+DC55", "U+DC56",
   "U+DC57", "U+DC58", "U+DC59", "U+DC5A", "U+DC5B", "U+DC5C", "U+DC5D", "U+DC5E", "U+DC5F", "U+DC60", "U+DC61",
   "U+DC62", "U+DC63", "U+DC64", "U+DC65", "U+DC66", "U+DC67", "U+DC68", "U+DC69", "U+DC6A", "U+DC6B", "U+DC6C",
   "U+DC6D", "U+DC6E", "U+DC6F", "U+DC70", "U+DC71", "U+DC72", "U+DC73", "U+DC74", "U+DC75", "U+DC76", "U+DC77",
   "U+DC78", "U+DC79", "U+DC7A", "U+DC7B", "U+DC7C", "U+DC7D", "U+DC7E", "U+DC7F", "U+DC80", "U+DC81", "U+DC82",
   "U+DC83", "U+DC84", "U+DC85", "U+DC86", "U+DC87", "U+DC88", "U+DC89", "U+DC8A", "U+DC8B", "U+DC8C", "U+DC8D",
   "U+DC8E", "U+DC8F", "U+DC90", "U+DC91", "U+DC92", "U+DC93", "U+DC94", "U+DC95", "U+DC96", "U+DC97", "U+DC98",
   "U+DC99", "U+DC9A", "U+DC9B", "U+DC9C", "U+DC9D", "U+DC9E", "U+DC9F", "U+DCA0", "U+DCA1", "U+DCA2", "U+DCA3",
   "U+DCA4", "U+DCA5", "U+DCA6", "U+DCA7", "U+DCA8", "U+DCA9", "U+DCAA", "U+DCAB", "U+DCAC", "U+DCAD", "U+DCAE",
   "U+DCAF", "U+DCB0", "U+DCB1", "U+DCB2", "U+DCB3", "U+DCB4", "U+DCB5", "U+DCB6", "U+DCB7", "U+DCB8", "U+DCB9",
   "U+DCBA", "U+DCBB", "U+DCBC", "U+DCBD", "U+DCBE", "U+DCBF", "U+DCC0", "U+DCC1", "U+DCC2", "U+DCC3", "U+DCC4",
   "U+DCC5", "U+DCC6", "U+DCC7", "U+DCC8", "U+DCC9", "U+DCCA", "U+DCCB", "U+DCCC", "U+DCCD", "U+DCCE", "U+DCCF",
   "U+DCD0", "U+DCD1", "U+DCD2", "U+DCD3", "U+DCD4", "U+DCD5", "U+DCD6", "U+DCD7", "U+DCD8", "U+DCD9", "U+DCDA",
   "U+DCDB", "U+DCDC", "U+DCDD", "U+DCDE", "U+DCDF", "U+DCE0", "U+DCE1", "U+DCE2", "U+DCE3", "U+DCE4", "U+DCE5",
   "U+DCE6", "U+DCE7", "U+DCE8", "U+DCE9", "U+DCEA", "U+DCEB", "U+DCEC", "U+DCED", "U+DCEE", "U+DCEF", "U+DCF0",
   "U+DCF1", "U+DCF2", "U+DCF3", "U+DCF4", "U+DCF5", "U+DCF6", "U+DCF7", "U+DCF8", "U+DCF9", "U+DCFA", "U+DCFB",
   "U+DCFC", "U+DCFD", "U+DCFE", "U+DCFF", "U+DD00", "U+DD01", "U+DD02", "U+DD03", "U+DD04", "U+DD05", "U+DD06",
   "U+DD07", "U+DD08", "U+DD09", "U+DD0A", "U+DD0B", "U+DD0C", "U+DD0D", "U+DD0E", "U+DD0F", "U+DD10", "U+DD11",
   "U+DD12", "U+DD13", "U+DD14", "U+DD15", "U+DD16", "U+DD17", "U+DD18", "U+DD19", "U+DD1A", "U+DD1B", "U+DD1C",
   "U+DD1D", "U+DD1E", "U+DD1F", "U+DD20", "U+DD21", "U+DD22", "U+DD23", "U+DD24", "U+DD25", "U+DD26", "U+DD27",
   "U+DD28", "U+DD29", "U+DD2A", "U+DD2B", "U+DD2C", "U+DD2D", "U+DD2E", "U+DD2F", "U+DD30", "U+DD31", "U+DD32",
   "U+DD33", "U+DD34", "U+DD35", "U+DD36", "U+DD37", "U+DD38", "U+DD39", "U+DD3A", "U+DD3B", "U+DD3C", "U+DD3D",
   "U+DD3E", "U+DD3F", "U+DD40", "U+DD41", "U+DD42", "U+DD43", "U+DD44", "U+DD45", "U+DD46", "U+DD47", "U+DD48",
   "U+DD49", "U+DD4A", "U+DD4B", "U+DD4C", "U+DD4D", "U+DD4E", "U+DD4F", "U+DD50", "U+DD51", "U+DD52", "U+DD53",
   "U+DD54", "U+DD55", "U+DD56", "U+DD57", "U+DD58", "U+DD59", "U+DD5A", "U+DD5B", "U+DD5C", "U+DD5D", "U+DD5E",
   "U+DD5F", "U+DD60", "U+DD61", "U+DD62", "U+DD63", "U+DD64", "U+DD65", "U+DD66", "U+DD67", "U+DD68", "U+DD69",
   "U+DD6A", "U+DD6B", "U+DD6C", "U+DD6D", "U+DD6E", "U+DD6F", "U+DD70", "U+DD71", "U+DD72", "U+DD73", "U+DD74",
   "U+DD75", "U+DD76", "U+DD77", "U+DD78", "U+DD79", "U+DD7A", "U+DD7B", "U+DD7C", "U+DD7D", "U+DD7E", "U+DD7F",
   "U+DD80", "U+DD81", "U+DD82", "U+DD83", "U+DD84", "U+DD85", "U+DD86", "U+DD87", "U+DD88", "U+DD89", "U+DD8A",
   "U+DD8B", "U+DD8C", "U+DD8D", "U+DD8E", "U+DD8F", "U+DD90", "U+DD91", "U+DD92", "U+DD93", "U+DD94", "U+DD95",
   "U+DD96", "U+DD97", "U+DD98", "U+DD99", "U+DD9A", "U+DD9B", "U+DD9C", "U+DD9D", "U+DD9E", "U+DD9F", "U+DDA0",
   "U+DDA1", "U+DDA2", "U+DDA3", "U+DDA4", "U+DDA5", "U+DDA6", "U+DDA7", "U+DDA8", "U+DDA9", "U+DDAA", "U+DDAB",
   "U+DDAC", "U+DDAD", "U+DDAE", "U+DDAF", "U+DDB0", "U+DDB1", "U+DDB2", "U+DDB3", "U+DDB4", "U+DDB5", "U+DDB6",
   "U+DDB7", "U+DDB8", "U+DDB9", "U+DDBA", "U+DDBB", "U+DDBC", "U+DDBD", "U+DDBE", "U+DDBF", "U+DDC0", "U+DDC1",
   "U+DDC2", "U+DDC3", "U+DDC4", "U+DDC5", "U+DDC6", "U+DDC7", "U+DDC8", "U+DDC9", "U+DDCA", "U+DDCB", "U+DDCC",
   "U+DDCD", "U+DDCE", "U+DDCF", "U+DDD0", "U+DDD1", "U+DDD2", "U+DDD3", "U+DDD4", "U+DDD5", "U+DDD6", "U+DDD7",
   "U+DDD8", "U+DDD9", "U+DDDA", "U+DDDB", "U+DDDC", "U+DDDD", "U+DDDE", "U+DDDF", "U+DDE0", "U+DDE1", "U+DDE2",
   "U+DDE3", "U+DDE4", "U+DDE5", "U+DDE6", "U+DDE7", "U+DDE8", "U+DDE9", "U+DDEA", "U+DDEB", "U+DDEC", "U+DDED",
   "U+DDEE", "U+DDEF", "U+DDF0", "U+DDF1", "U+DDF2", "U+DDF3", "U+DDF4", "U+DDF5", "U+DDF6", "U+DDF7", "U+DDF8",
   "U+DDF9", "U+DDFA", "U+DDFB", "U+DDFC", "U+DDFD", "U+DDFE", "U+DDFF", "U+DE00", "U+DE01", "U+DE02", "U+DE03",
   "U+DE04", "U+DE05", "U+DE06", "U+DE07", "U+DE08", "U+DE09", "U+DE0A", "U+DE0B", "U+DE0C", "U+DE0D", "U+DE0E",
   "U+DE0F", "U+DE10", "U+DE11", "U+DE12", "U+DE13", "U+DE14", "U+DE15", "U+DE16", "U+DE17", "U+DE18", "U+DE19",
   "U+DE1A", "U+DE1B", "U+DE1C", "U+DE1D", "U+DE1E", "U+DE1F", "U+DE20", "U+DE21", "U+DE22", "U+DE23", "U+DE24",
   "U+DE25", "U+DE26", "U+DE27", "U+DE28", "U+DE29", "U+DE2A", "U+DE2B", "U+DE2C", "U+DE2D", "U+DE2E", "U+DE2F",
   "U+DE30", "U+DE31", "U+DE32", "U+DE33", "U+DE34", "U+DE35", "U+DE36", "U+DE37", "U+DE38", "U+DE39", "U+DE3A",
   "U+DE3B", "U+DE3C", "U+DE3D", "U+DE3E", "U+DE3F", "U+DE40", "U+DE41", "U+DE42", "U+DE43", "U+DE44", "U+DE45",
   "U+DE46", "U+DE47", "U+DE48", "U+DE49", "U+DE4A", "U+DE4B", "U+DE4C", "U+DE4D", "U+DE4E", "U+DE4F", "U+DE50",
   "U+DE51", "U+DE52", "U+DE53", "U+DE54", "U+DE55", "U+DE56", "U+DE57", "U+DE58", "U+DE59", "U+DE5A", "U+DE5B",
   "U+DE5C", "U+DE5D", "U+DE5E", "U+DE5F", "U+DE60", "U+DE61", "U+DE62", "U+DE63", "U+DE64", "U+DE65", "U+DE66",
   "U+DE67", "U+DE68", "U+DE69", "U+DE6A", "U+DE6B", "U+DE6C", "U+DE6D", "U+DE6E", "U+DE6F", "U+DE70", "U+DE71",
   "U+DE72", "U+DE73", "U+DE74", "U+DE75", "U+DE76", "U+DE77", "U+DE78", "U+DE79", "U+DE7A", "U+DE7B", "U+DE7C",
   "U+DE7D", "U+DE7E", "U+DE7F", "U+DE80", "U+DE81", "U+DE82", "U+DE83", "U+DE84", "U+DE85", "U+DE86", "U+DE87",
   "U+DE88", "U+DE89", "U+DE8A", "U+DE8B", "U+DE8C", "U+DE8D", "U+DE8E", "U+DE8F", "U+DE90", "U+DE91", "U+DE92",
   "U+DE93", "U+DE94", "U+DE95", "U+DE96", "U+DE97", "U+DE98", "U+DE99", "U+DE9A", "U+DE9B", "U+DE9C", "U+DE9D",
   "U+DE9E", "U+DE9F", "U+DEA0", "U+DEA1", "U+DEA2", "U+DEA3", "U+DEA4", "U+DEA5", "U+DEA6", "U+DEA7", "U+DEA8",
   "U+DEA9", "U+DEAA", "U+DEAB", "U+DEAC", "U+DEAD", "U+DEAE", "U+DEAF", "U+DEB0", "U+DEB1", "U+DEB2", "U+DEB3",
   "U+DEB4", "U+DEB5", "U+DEB6", "U+DEB7", "U+DEB8", "U+DEB9", "U+DEBA", "U+DEBB", "U+DEBC", "U+DEBD", "U+DEBE",
   "U+DEBF", "U+DEC0", "U+DEC1", "U+DEC2", "U+DEC3", "U+DEC4", "U+DEC5", "U+DEC6", "U+DEC7", "U+DEC8", "U+DEC9",
   "U+DECA", "U+DECB", "U+DECC", "U+DECD", "U+DECE", "U+DECF", "U+DED0", "U+DED1", "U+DED2", "U+DED3", "U+DED4",
   "U+DED5", "U+DED6", "U+DED7", "U+DED8", "U+DED9", "U+DEDA", "U+DEDB", "U+DEDC", "U+DEDD", "U+DEDE", "U+DEDF",
   "U+DEE0", "U+DEE1", "U+DEE2", "U+DEE3", "U+DEE4", "U+DEE5", "U+DEE6", "U+DEE7", "U+DEE8", "U+DEE9", "U+DEEA",
   "U+DEEB", "U+DEEC", "U+DEED", "U+DEEE", "U+DEEF", "U+DEF0", "U+DEF1", "U+DEF2", "U+DEF3", "U+DEF4", "U+DEF5",
   "U+DEF6", "U+DEF7", "U+DEF8", "U+DEF9", "U+DEFA", "U+DEFB", "U+DEFC", "U+DEFD", "U+DEFE", "U+DEFF", "U+DF00",
   "U+DF01", "U+DF02", "U+DF03", "U+DF04", "U+DF05", "U+DF06", "U+DF07", "U+DF08", "U+DF09", "U+DF0A", "U+DF0B",
   "U+DF0C", "U+DF0D", "U+DF0E", "U+DF0F", "U+DF10", "U+DF11", "U+DF12", "U+DF13", "U+DF14", "U+DF15", "U+DF16",
   "U+DF17", "U+DF18", "U+DF19", "U+DF1A", "U+DF1B", "U+DF1C", "U+DF1D", "U+DF1E", "U+DF1F", "U+DF20", "U+DF21",
   "U+DF22", "U+DF23", "U+DF24", "U+DF25", "U+DF26", "U+DF27", "U+DF28", "U+DF29", "U+DF2A", "U+DF2B", "U+DF2C",
   "U+DF2D", "U+DF2E", "U+DF2F", "U+DF30", "U+DF31", "U+DF32", "U+DF33", "U+DF34", "U+DF35", "U+DF36", "U+DF37",
   "U+DF38", "U+DF39", "U+DF3A", "U+DF3B", "U+DF3C", "U+DF3D", "U+DF3E", "U+DF3F", "U+DF40", "U+DF41", "U+DF42",
   "U+DF43", "U+DF44", "U+DF45", "U+DF46", "U+DF47", "U+DF48", "U+DF49", "U+DF4A", "U+DF4B", "U+DF4C", "U+DF4D",
   "U+DF4E", "U+DF4F", "U+DF50", "U+DF51", "U+DF52", "U+DF53", "U+DF54", "U+DF55", "U+DF56", "U+DF57", "U+DF58",
   "U+DF59", "U+DF5A", "U+DF5B", "U+DF5C", "U+DF5D", "U+DF5E", "U+DF5F", "U+DF60", "U+DF61", "U+DF62", "U+DF63",
   "U+DF64", "U+DF65", "U+DF66", "U+DF67", "U+DF68", "U+DF69", "U+DF6A", "U+DF6B", "U+DF6C", "U+DF6D", "U+DF6E",
   "U+DF6F", "U+DF70", "U+DF71", "U+DF72", "U+DF73", "U+DF74", "U+DF75", "U+DF76", "U+DF77", "U+DF78", "U+DF79",
   "U+DF7A", "U+DF7B", "U+DF7C", "U+DF7D", "U+DF7E", "U+DF7F", "U+DF80", "U+DF81", "U+DF82", "U+DF83", "U+DF84",
   "U+DF85", "U+DF86", "U+DF87", "U+DF88", "U+DF89", "U+DF8A", "U+DF8B", "U+DF8C", "U+DF8D", "U+DF8E", "U+DF8F",
   "U+DF90", "U+DF91", "U+DF92", "U+DF93", "U+DF94", "U+DF95", "U+DF96", "U+DF97", "U+DF98", "U+DF99", "U+DF9A",
   "U+DF9B", "U+DF9C", "U+DF9D", "U+DF9E", "U+DF9F", "U+DFA0", "U+DFA1", "U+DFA2", "U+DFA3", "U+DFA4", "U+DFA5",
   "U+DFA6", "U+DFA7", "U+DFA8", "U+DFA9", "U+DFAA", "U+DFAB", "U+DFAC", "U+DFAD", "U+DFAE", "U+DFAF", "U+DFB0",
   "U+DFB1", "U+DFB2", "U+DFB3", "U+DFB4", "U+DFB5", "U+DFB6", "U+DFB7", "U+DFB8", "U+DFB9", "U+DFBA", "U+DFBB",
   "U+DFBC", "U+DFBD", "U+DFBE", "U+DFBF", "U+DFC0", "U+DFC1", "U+DFC2", "U+DFC3", "U+DFC4", "U+DFC5", "U+DFC6",
   "U+DFC7", "U+DFC8", "U+DFC9", "U+DFCA", "U+DFCB", "U+DFCC", "U+DFCD", "U+DFCE", "U+DFCF", "U+DFD0", "U+DFD1",
   "U+DFD2", "U+DFD3", "U+DFD4", "U+DFD5", "U+DFD6", "U+DFD7", "U+DFD8", "U+DFD9", "U+DFDA", "U+DFDB", "U+DFDC",
   "U+DFDD", "U+DFDE", "U+DFDF", "U+DFE0", "U+DFE1", "U+DFE2", "U+DFE3", "U+DFE4", "U+DFE5", "U+DFE6", "U+DFE7",
   "U+DFE8", "U+DFE9", "U+DFEA", "U+DFEB", "U+DFEC", "U+DFED", "U+DFEE", "U+DFEF", "U+DFF0", "U+DFF1", "U+DFF2",
   "U+DFF3", "U+DFF4", "U+DFF5", "U+DFF6", "U+DFF7", "U+DFF8", "U+DFF9", "U+DFFA", "U+DFFB", "U+DFFC", "U+DFFD",
   "U+DFFE", "U+DFFF"}

\* c.lower() of a one-character string c: a string of one or two characters.
LowerChar(c) ==
  IF c = "U+0130" THEN <<"i", "U+0307">>
  ELSE IF c \in DOMAIN LowerTable THEN <<LowerTable[c]>> ELSE <<c>>

\* str.lower(): every character by LowerChar, except that a capital sigma
\* (U+03A3) becomes the final sigma (U+03C2) where it ends a word: the
\* nearest character before it that is not case-ignorable is cased, and the
\* nearest such character after it, if there is one, is not cased.
Lower(s) ==
  LET FinalSigma(i) ==
        LET before == {j \in 1..(i - 1) : s[j] \notin CaseIgnorable}
            after == {j \in (i + 1)..Len(s) : s[j] \notin CaseIgnorable}
        IN /\ before # {}
           /\ s[CHOOSE j \in before : \A k \in before : k <= j] \in Cased
           /\ \/ after = {}
              \/ s[CHOOSE j \in after : \A k \in after : j <= k] \notin Cased
      RECURSIVE LowerFrom(_)
      LowerFrom(i) ==
        IF i > Len(s) THEN <<>>
        ELSE (IF s[i] = "U+03A3"
              THEN <<IF FinalSigma(i) THEN "U+03C2" ELSE "U+03C3">>
              ELSE LowerChar(s[i])) \o LowerFrom(i + 1)
  IN LowerFrom(1)

\* sep.join(parts)
RECURSIVE Join(_, _)
Join(parts, sep) ==
  IF parts = <<>> THEN <<>>
  ELSE IF Len(parts) = 1 THEN parts[1]
  ELSE parts[1] \o sep \o Join(Tail(parts), sep)

\* ------------------------------------------------------ triage extraction
TRIAGE_MARKER == <<"T","R","I","A","G","E","_","L","E","V","E","L",":">>
Undetermined == <<"U","n","d","e","t","e","r","m","i","n","e","d">>

\* The try block of _synthesize_report: the triage_level left in the state
\* for report content full_report_text, given the triage_level before.
\* A content that is no str makes .strip() raise, which the except catches.
ExtractTriage(full_report_text, triage_level) ==
  IF full_report_text.t # "str" THEN PyStr(Undetermined)
  ELSE LET lines == Split(Strip(full_report_text.v), Str_NL)
           last_line == lines[Len(lines)]
       IN IF Contains(last_line, TRIAGE_MARKER)
          THEN PyStr(Strip(Split(last_line, TRIAGE_MARKER)[2]))
          ELSE triage_level

\* ---------------------------------------------------------- query builder
\* high_value_map of _get_smart_search_query, in insertion order:
\* <<keyword, medical term>>.
high_value_map ==
  << << <<"s","t","r","a","w","b","e","r","r","y"," ","t","o","n","g","u","e">>,
        <<"\"","K","a","w","a","s","a","k","i"," ","D","i","s","e","a","s","e","\""," ","O","R"," ","\"","S","c","a","r","l","e","t"," ","F","e","v","e","r","\"">> >>,
     << <<"s","l","a","p","p","e","d"," ","c","h","e","e","k">>,
        <<"\"","P","a","r","v","o","v","i","r","u","s"," ","B","1","9","\""," ","O","R"," ","\"","E","r","y","t","h","e","m","a"," ","I","n","f","e","c","t","i","o","s","u","m","\"">> >>,
     << <<"b","u","l","l","'","s","-","e","y","e"," ","r","a","s","h">>,
        <<"\"","L","y","m","e"," ","D","i","s","e","a","s","e","\""," ","O","R"," ","\"","E","r","y","t","h","e","m","a"," ","M","i","g","r","a","n","s","\"">> >>,
     << <<"t","a","r","g","e","t"," ","l","e","s","i","o","n">>,
        <<"\"","S","t","e","v","e","n","s","-","J","o","h","n","s","o","n"," ","S","y","n","d","r","o","m","e","\""," ","O","R"," ","\"","E","r","y","t","h","e","m","a"," ","M","u","l","t","i","f","o","r","m","e","\"">> >>,
     << <<"n","u","c","h","a","l"," ","r","i","g","i","d","i","t","y">>,
        <<"\"","m","e","n","i","n","g","i","t","i","s","\""," ","O","R"," ","\"","n","u","c","h","a","l"," ","r","i","g","i","d","i","t","y","\"">> >>,
     << <<"w","h","o","o","p","i","n","g"," ","c","o","u","g","h">>,
        <<"\"","P","e","r","t","u","s","s","i","s","\""," ","O","R"," ","\"","B","o","r","d","e","t","e","l","l","a"," ","p","e","r","t","u","s","s","i","s","\"">> >>,
     << <<"p","a","r","o","x","y","s","m","a","l"," ","c","o","u","g","h">>,
        <<"\"","P","e","r","t","u","s","s","i","s","\""," ","O","R"," ","\"","w","h","o","o","p","i","n","g"," ","c","o","u","g","h","\"">> >> >>

Str_pediatric == <<"p","e","d","i","a","t","r","i","c">>
Str_adult == <<"a","d","u","l","t">>
Str_differential == <<" ","d","i","f","f","e","r","e","n","t","i","a","l"," ","d","i","a","g","n","o","s","i","s"," ">>

\* The inner `for keyword, medical_term in high_value_map.items()` loop: the
\* index of the first keyword contained in qualifier_lower, 0 when none is.
KeywordHit(qualifier_lower) ==
  LET hits == {k \in 1..Len(high_value_map) : Contains(qualifier_lower, high_value_map[k][1])}
  IN IF hits = {} THEN 0 ELSE CHOOSE k \in hits : \A j \in hits : k <= j

\* What `for x in value` and str.join(value) iterate over: the items of a
\* list, the characters of a str, the keys of a dict in insertion order;
\* None and numbers are not iterable (TypeError).
IterItems(value) ==
  CASE value.t = "list" -> value
    [] value.t = "str" -> PyList([i \in 1..Len(value.v) |-> PyStr(<<value.v[i]>>)])
    [] value.t = "dict" -> PyList([i \in 1..Len(value.v) |-> PyStr(value.v[i][1])])
    [] OTHER -> Raise("TypeError")

\* `for qualifier in symptom.get("qualifiers", [])`, from qualifier j on,
\* entered with the current search_query: the search_query it leaves.
RECURSIVE QualifierLoop(_, _, _)
QualifierLoop(qualifiers, j, search_query) ==
  IF j > Len(qualifiers) THEN PyStr(search_query)
  ELSE IF qualifiers[j].t # "str" THEN Raise("AttributeError")
  ELSE LET k == KeywordHit(Lower(qualifiers[j].v))
           found == IF k # 0 THEN high_value_map[k][2] ELSE search_query
       IN IF found # <<>> THEN PyStr(found)
          ELSE QualifierLoop(qualifiers, j + 1, found)

\* `symptom_name in high_value_map`: the index of the key, 0 when absent.
NameHit(symptom_name) ==
  LET hits == {k \in 1..Len(high_value_map) : high_value_map[k][1] = symptom_name}
  IN IF hits = {} THEN 0 ELSE CHOOSE k \in hits : TRUE

\* A symptom loop whose name test lacks the `if not search_query` guard: a
\* high-value name replaces the phrase an earlier qualifier gave.
RECURSIVE SymptomLoop_nameUnguarded(_, _, _)
SymptomLoop_nameUnguarded(symptoms, i, search_query) ==
  IF i > Len(symptoms) THEN PyStr(search_query)
  ELSE IF symptoms[i].t # "dict" THEN Raise("AttributeError")
  ELSE LET qualifiers == DictGet(symptoms[i], Key("qualifiers"), EmptyList)
           name == DictGet(symptoms[i], Key("name"), PyStr(<<>>))
       IN IF IterItems(qualifiers).t = "raise" THEN IterItems(qualifiers)
          ELSE LET q == QualifierLoop(IterItems(qualifiers).v, 1, search_query)
               IN IF q.t = "raise" THEN q
                  ELSE IF name.t # "str" THEN Raise("AttributeError")
                  ELSE IF NameHit(Lower(name.v)) # 0
                       THEN PyStr(high_value_map[NameHit(Lower(name.v))][2])
                       ELSE SymptomLoop_nameUnguarded(symptoms, i + 1, q.v)

\* `for symptom in symptoms`, from symptom i on (Tier 1).
RECURSIVE SymptomLoop(_, _, _)
SymptomLoop(symptoms, i, search_query) ==
  IF i > Len(symptoms) THEN PyStr(search_query)
  ELSE IF symptoms[i].t # "dict" THEN Raise("AttributeError")
  ELSE LET qualifiers == DictGet(symptoms[i], Key("qualifiers"), EmptyList)
       IN IF IterItems(qualifiers).t = "raise" THEN IterItems(qualifiers)
          ELSE LET q == QualifierLoop(IterItems(qualifiers).v, 1, search_query)
               IN IF q.t = "raise" THEN q
                  ELSE IF q.v # <<>> THEN SymptomLoop(symptoms, i + 1, q.v)
                  ELSE LET name == DictGet(symptoms[i], Key("name"), PyStr(<<>>))
                       IN IF name.t # "str" THEN Raise("AttributeError")
                          ELSE IF NameHit(Lower(name.v)) # 0
                               THEN PyStr(high_value_map[NameHit(Lower(name.v))][2])
                               ELSE SymptomLoop(symptoms, i + 1, <<>>)

\* [s.get('name', '') for s in symptoms[:2] if s.get('name')]
RECURSIVE SymptomNames(_)
SymptomNames(symptoms) ==
  IF symptoms = <<>> THEN <<>>
  ELSE LET name == DictGet(Head(symptoms), Key("name"), PyStr(<<>>))
       IN (IF Truthy(name) THEN <<name.v>> ELSE <<>>) \o SymptomNames(Tail(symptoms))

\* Tier 2: the fallback query from up to two symptom names and the age.
FallbackQuery(symptoms, patient_details) ==
  LET symptom_names == SymptomNames(SubSeq(symptoms, 1, IF Len(symptoms) < 2 THEN Len(symptoms) ELSE 2))
      patient_age == IF Truthy(patient_details)
                     THEN DictGet(patient_details, Key("age"), PyInt(0))
                     ELSE PyInt(0)
  IN IF symptom_names = <<>> THEN PyStr(<<>>)
     ELSE IF patient_age.t # "int" THEN Raise("TypeError")
     ELSE PyStr((IF patient_age.v < 18 THEN Str_pediatric ELSE Str_adult)
                \o Str_differential \o Join(symptom_names, <<" ">>))

\* _get_smart_search_query: a str value, or the exception it raises.
SmartSearchQuery(structured_symptoms, patient_details) ==
  LET symptoms == DictGet(structured_symptoms, Key("symptoms"), EmptyList)
  IN IF ~Truthy(symptoms) THEN PyStr(<<>>)
     ELSE LET tier1 == SymptomLoop(symptoms.v, 1, <<>>)
          IN IF tier1.t = "raise" THEN tier1
             ELSE IF tier1.v # <<>> THEN tier1
             ELSE FallbackQuery(symptoms.v, patient_details)

\* ---------------------------------------------------------- step wrapper
\* The characters of a step name.
StepChars(step_name) ==
  CASE step_name = "SymptomAnalyzer" -> <<"S","y","m","p","t","o","m","A","n","a","l","y","z","e","r">>
    [] step_name = "EHR_Fetcher" -> <<"E","H","R","_","F","e","t","c","h","e","r">>
    [] step_name = "PubMedSearcher" -> <<"P","u","b","M","e","d","S","e","a","r","c","h","e","r">>
    [] step_name = "OpenAlexSearcher" -> <<"O","p","e","n","A","l","e","x","S","e","a","r","c","h","e","r">>
    [] step_name = "CaseSearcher" -> <<"C","a","s","e","S","e","a","r","c","h","e","r">>
    [] step_name = "ImagingAnalyzer" -> <<"I","m","a","g","i","n","g","A","n","a","l","y","z","e","r">>
    [] step_name = "CritiqueAgent" -> <<"C","r","i","t","i","q","u","e","A","g","e","n","t">>
    [] step_name = "ReportSynthesizer" -> <<"R","e","p","o","r","t","S","y","n","t","h","e","s","i","z","e","r">>
    [] step_name = "DrugChecker" -> <<"D","r","u","g","C","h","e","c","k","e","r">>

Str_search == <<"s","e","a","r","c","h">>

\* A wrapper whose default is {} for every step.
SafeDefault_alwaysDict(step_name) == EmptyDict

\* `[] if "search" in step_name.lower() else {}`
SafeDefault(step_name) ==
  IF Contains(Lower(StepChars(step_name)), Str_search) THEN EmptyList ELSE EmptyDict

\* f"Error in step '{step_name}': {str(e)}"
ErrorInStep(step_name, exc) == PyStr(<<"Error in step '", step_name, "': ", exc>>)
\* f"Workflow failed: {str(e)}"
WorkflowFailed(exc) == PyStr(<<"Workflow failed: ", exc>>)

\* One audit event of log_step.
LogEvent(agent_name, action, status) ==
  [agent_name |-> agent_name, action |-> action, status |-> status]

\* The audit trail is kept per agent: lg[a] holds the <<action, status>> of
\* the events logged for agent a, in the order they were logged.
AgentNames ==
  {"Orchestrator", "SymptomAnalyzer", "EHR_Fetcher", "PubMedSearcher",
   "OpenAlexSearcher", "CaseSearcher", "ImagingAnalyzer", "CritiqueAgent",
   "ReportSynthesizer", "DrugChecker"}
EmptyLog == [a \in AgentNames |-> <<>>]
LogStep(lg, event) ==
  [lg EXCEPT ![event.agent_name] = Append(@, <<event.action, event.status>>)]
RECURSIVE LogSteps(_, _)
LogSteps(lg, events) ==
  IF events = <<>> THEN lg ELSE LogSteps(LogStep(lg, Head(events)), Tail(events))
\* log_performance(diagnosis_id, agent_name, duration_ms), the duration in
\* hundredths of a millisecond: a PERFORMANCE event, a warning above five
\* seconds. No step of the workflow calls it.
log_performance(lg, agent_name, duration_ms) ==
  LogStep(lg, LogEvent(agent_name, "PERFORMANCE",
                       IF duration_ms > 500000 THEN "WARNING" ELSE "SUCCESS"))
StartEvent(step_name) == LogEvent(step_name, "START", "SUCCESS")
EndEvent(step_name) == LogEvent(step_name, "END", "SUCCESS")
ErrorEvent(step_name) == LogEvent(step_name, "ERROR", "FAILURE")

\* The value a state modifier returns: the state record itself.
StateRef(st) == [t |-> "state", v |-> st]

\* A wrapper that records the error and then re-raises it.
SafeStep_reraises(st, step_name, out, is_state_modifier) ==
  IF out.t # "raise"
  THEN [raised |-> FALSE, st |-> IF is_state_modifier THEN out.v ELSE st,
        ret |-> out, events |-> <<EndEvent(step_name)>>]
  ELSE [raised |-> TRUE,
        st |-> [st EXCEPT !.error_message = ErrorInStep(step_name, out.exc)],
        ret |-> out, events |-> <<ErrorEvent(step_name)>>]

\* A wrapper that logs END in a `finally`: a failed step logs ERROR and END.
SafeStep_endInFinally(st, step_name, out, is_state_modifier) ==
  IF out.t # "raise"
  THEN [raised |-> FALSE, st |-> IF is_state_modifier THEN out.v ELSE st,
        ret |-> out, events |-> <<EndEvent(step_name)>>]
  ELSE LET st2 == [st EXCEPT !.error_message = ErrorInStep(step_name, out.exc)]
       IN [raised |-> FALSE, st |-> st2,
           ret |-> IF is_state_modifier THEN StateRef(st2) ELSE SafeDefault(step_name),
           events |-> <<ErrorEvent(step_name), EndEvent(step_name)>>]

\* A wrapper that discards the report of a record whose step failed.
SafeStep_discardsReport(st, step_name, out, is_state_modifier) ==
  IF out.t # "raise"
  THEN [raised |-> FALSE, st |-> IF is_state_modifier THEN out.v ELSE st,
        ret |-> out, events |-> <<EndEvent(step_name)>>]
  ELSE LET st2 == [st EXCEPT !.error_message = ErrorInStep(step_name, out.exc),
                             !.final_report = PyNone,
                             !.triage_level = PyNone]
       IN [raised |-> FALSE, st |-> st2,
           ret |-> IF is_state_modifier THEN StateRef(st2) ELSE SafeDefault(step_name),
           events |-> <<ErrorEvent(step_name)>>]

\* _safe_step after its START event, for the outcome `out` of func(state)
\* (a value, or Raise(exc)): the state it leaves, what it returns (ret, or
\* the exception with raised = TRUE when its except clause does not catch),
\* and the events it logs.
SafeStep(st, step_name, out, is_state_modifier) ==
  IF out.t # "raise"
  THEN [raised |-> FALSE, st |-> IF is_state_modifier THEN out.v ELSE st,
        ret |-> out, events |-> <<EndEvent(step_name)>>]
  ELSE IF IsException(out.exc)
  THEN LET st2 == [st EXCEPT !.error_message = ErrorInStep(step_name, out.exc)]
       IN [raised |-> FALSE, st |-> st2,
           ret |-> IF is_state_modifier THEN StateRef(st2) ELSE SafeDefault(step_name),
           events |-> <<ErrorEvent(step_name)>>]
  ELSE [raised |-> TRUE, st |-> st, ret |-> out, events |-> <<>>]

\* ------------------------------------------------------ the state record
\* DiagnosticState(diagnosis_id, patient_id, symptoms_text, image_data)
DiagnosticState(diagnosis_id, patient_id, symptoms_text, image_data) ==
  [diagnosis_id |-> diagnosis_id,
   patient_id |-> patient_id,
   symptoms_text |-> symptoms_text,
   image_data |-> image_data,
   structured_symptoms |-> PyNone,
   patient_details |-> PyNone,
   literature_evidence |-> EmptyList,
   case_database_evidence |-> EmptyList,
   imaging_findings |-> PyNone,
   critique_notes |-> PyNone,
   final_report |-> PyNone,
   triage_level |-> PyNone,
   drug_interaction_warnings |-> PyNone,
   error_message |-> PyNone]

\* ----------------------------------------------------------- collaborators
\* The patients table: patient 1 is a child, patient 2 an adult whose
\* nullable medical_history is NULL; no other id has a row.
PatientRows == {1, 2}
PatientRow(patient_id) ==
  << <<Key("id"), PyInt(patient_id)>>,
     <<Key("name"), PyStr(<<IF patient_id = 1 THEN "Ann" ELSE "Bob">>)>>,
     <<Key("age"), PyInt(IF patient_id = 1 THEN 6 ELSE 40)>>,
     <<Key("gender"), PyStr(<<IF patient_id = 1 THEN "F" ELSE "M">>)>>,
     <<Key("medical_history"), IF patient_id = 1 THEN PyStr(<<"asthma">>) ELSE PyNone>>,
     <<Key("current_symptoms"), PyNone>>,
     <<Key("created_at"), PyStr(<<"2025-01-01T00:00:00">>)>>,
     <<Key("updated_at"), PyStr(<<"2025-01-01T00:00:00">>)>> >>

\* ehr_agent.get_patient_details: the row as a dict, None when there is no
\* row or the query fails (db_ok = FALSE).
get_patient_details(patient_id, db_ok) ==
  IF db_ok /\ patient_id \in PatientRows THEN PyDict(PatientRow(patient_id)) ELSE PyNone

\* _fetch_ehr_data
FetchEhrData(patient_id, db_ok) ==
  LET patient_data == get_patient_details(patient_id, db_ok)
  IN IF patient_data = PyNone THEN Raise("ValueError") ELSE patient_data

Symptom(name, qualifiers) ==
  PyDict(<< <<Key("name"), name>>, <<Key("qualifiers"), qualifiers>> >>)
Str_rash == <<"r","a","s","h">>
Str_cough == <<"c","o","u","g","h">>
Str_fever == <<"f","e","v","e","r">>
Str_slapped_cheek == <<"s","l","a","p","p","e","d"," ","c","h","e","e","k">>

\* JSON objects the symptom extraction returns: no symptom, a high-value
\* qualifier, two plain symptoms, a symptom whose qualifiers are null, a
\* symptom given as a bare string, a symptom whose name is a number, a
\* symptom without a name, with no qualifier and with a high-value one,
\* qualifiers given as one string, and a numbered name before a bare string.
SymptomSamples ==
  { PyDict(<< <<Key("symptoms"), EmptyList>> >>),
    PyDict(<< <<Key("symptoms"), PyList(<<Symptom(PyStr(<<>>), EmptyList)>>)>> >>),
    PyDict(<< <<Key("symptoms"), PyList(<<Symptom(PyStr(<<>>), PyList(<<PyStr(Str_slapped_cheek)>>))>>)>> >>),
    PyDict(<< <<Key("symptoms"), PyList(<<Symptom(PyInt(5), PyList(<<PyStr(Str_slapped_cheek)>>))>>)>> >>),
    PyDict(<< <<Key("symptoms"), PyList(<<Symptom(PyStr(Str_rash), PyList(<<PyStr(Str_slapped_cheek)>>))>>)>> >>),
    PyDict(<< <<Key("symptoms"), PyList(<<Symptom(PyStr(Str_cough), EmptyList),
                                  Symptom(PyStr(Str_fever), EmptyList)>>)>> >>),
    PyDict(<< <<Key("symptoms"), PyList(<<Symptom(PyStr(Str_cough), PyNone)>>)>> >>),
    PyDict(<< <<Key("symptoms"), PyList(<<PyStr(Str_fever)>>)>> >>),
    PyDict(<< <<Key("symptoms"), PyList(<<Symptom(PyStr(Str_cough), PyStr(Str_slapped_cheek))>>)>> >>),
    PyDict(<< <<Key("symptoms"), PyList(<<Symptom(PyInt(5), EmptyList), PyStr(Str_fever)>>)>> >>) }

\* Outcomes of _analyze_symptoms: the API call raises, or the content parses.
AnalyzeSymptomsOutcomes == {Raise("APIError")} \cup SymptomSamples

\* A float, in hundredths.
PyFloat100(n) == [t |-> "float", v |-> n]

\* One element of the list _search_pubmed builds.
PubMedItem(i) ==
  PyDict(<< <<Key("source_id"), PyStr(<<"PMID:", "pmid", ToString(i)>>)>>,
            <<Key("text"), PyStr(<<"Title: ", "title", ToString(i), "\nAbstract: ", "abstract", ToString(i)>>)>>,
            <<Key("confidence"), PyFloat100(95)>> >>)

\* One element of the list OpenAlexService.search returns
\* (_extract_paper_info).
OpenAlexItem(i) ==
  PyDict(<< <<Key("title"), PyStr(<<"title", ToString(i)>>)>>,
            <<Key("abstract"), PyStr(<<"abstract", ToString(i)>>)>>,
            <<Key("authors"), PyStr(<<"authors", ToString(i)>>)>>,
            <<Key("journal"), PyStr(<<"journal", ToString(i)>>)>>,
            <<Key("publication_date"), PyStr(<<"date", ToString(i)>>)>>,
            <<Key("doi"), PyStr(<<"doi", ToString(i)>>)>>,
            <<Key("openalex_id"), PyStr(<<"W", ToString(i)>>)>>,
            <<Key("source"), PyStr(<<"OpenAlex">>)>>,
            <<Key("url"), PyStr(<<"https://doi.org/", "doi", ToString(i)>>)>> >>)

\* Distances the case collection reports, in hundredths.
CaseDistances == {25, 130}

\* One element of the list _search_case_database builds.
CaseItem(i, dist) ==
  PyDict(<< <<Key("source_id"), PyStr(<<"CaseDB:", "case", ToString(i)>>)>>,
            <<Key("text"), PyStr(<<"Case Title: ", "title", ToString(i), "\nSummary: ", "doc", ToString(i)>>)>>,
            <<Key("confidence"), PyFloat100(100 - dist)>> >>)

\* The list of items 1..n, and the lists of 0..MaxResults items.
PubMedList(n) == PyList([i \in 1..n |-> PubMedItem(i)])
OpenAlexList(n) == PyList([i \in 1..n |-> OpenAlexItem(i)])
\* The orders a search backend returns its items in: its own ranking,
\* here by rising and by falling item number.
ItemOrders(n) == {[i \in 1..n |-> i], [i \in 1..n |-> n + 1 - i]}
PubMedLists ==
  UNION {{PyList([i \in 1..n |-> PubMedItem(o[i])]) : o \in ItemOrders(n)} : n \in 0..MaxResults}
OpenAlexLists ==
  UNION {{PyList([i \in 1..n |-> OpenAlexItem(o[i])]) : o \in ItemOrders(n)} : n \in 0..MaxResults}
CaseLists ==
  {PyList([i \in 1..n |-> CaseItem(i, dist)]) : n \in 0..MaxResults, dist \in CaseDistances}

\* item['text'], item['source_id'] of _format_evidence_for_prompt.
RECURSIVE FormatEvidenceForPrompt(_)
FormatEvidenceForPrompt(evidence) ==
  IF ~Truthy(evidence) THEN PyStr(<<"No relevant evidence found.">>)
  ELSE LET item == Head(evidence.v)
       IN IF Key("text") \notin DictKeys(item) \/ Key("source_id") \notin DictKeys(item)
          THEN Raise("KeyError")
          ELSE LET rest == FormatEvidenceForPrompt(PyList(Tail(evidence.v)))
               IN IF Len(evidence.v) = 1 THEN PyStr(<<"evidence">>)
                  ELSE IF rest.t = "raise" THEN rest ELSE PyStr(<<"evidence">>)

\* format_symptoms of synthesis_report_user: s.get('name'), then
\* ', '.join(s.get('qualifiers', [])).
RECURSIVE SynthesisFormatSymptoms(_)
SynthesisFormatSymptoms(symptoms) ==
  IF symptoms = <<>> THEN PyStr(<<"symptoms">>)
  ELSE IF Head(symptoms).t # "dict" THEN Raise("AttributeError")
  ELSE LET qualifiers == IterItems(DictGet(Head(symptoms), Key("qualifiers"), EmptyList))
       IN IF qualifiers.t = "raise" THEN qualifiers
          ELSE IF \E j \in 1..Len(qualifiers.v) : qualifiers.v[j].t # "str"
               THEN Raise("TypeError")
          ELSE SynthesisFormatSymptoms(Tail(symptoms))

\* DiagnosticPrompts.synthesis_report_user: the prompt, or what it raises.
synthesis_report_user(st) ==
  LET literature == FormatEvidenceForPrompt(st.literature_evidence)
      cases == FormatEvidenceForPrompt(st.case_database_evidence)
      symptoms == DictGet(st.structured_symptoms, Key("symptoms"), EmptyList)
  IN IF literature.t = "raise" THEN literature
     ELSE IF cases.t = "raise" THEN cases
     ELSE IF ~Truthy(symptoms) THEN PyStr(<<"prompt">>)
     ELSE IF SynthesisFormatSymptoms(symptoms.v).t = "raise"
          THEN SynthesisFormatSymptoms(symptoms.v)
     ELSE PyStr(<<"prompt">>)

\* format_symptoms of critique_agent_user: the list comprehension calls
\* s.get('name', 'N/A') of every symptom, then ", ".join takes the names.
CritiqueFormatSymptoms(symptoms) ==
  IF \E i \in 1..Len(symptoms) : symptoms[i].t # "dict" THEN Raise("AttributeError")
  ELSE IF \E i \in 1..Len(symptoms) :
            DictGet(symptoms[i], Key("name"), PyStr(<<"N/A">>)).t # "str"
       THEN Raise("TypeError")
  ELSE PyStr(<<"symptoms">>)

\* DiagnosticPrompts.critique_agent_user: the prompt, or what it raises.
critique_agent_user(st) ==
  LET symptoms == DictGet(st.structured_symptoms, Key("symptoms"), EmptyList)
  IN IF ~Truthy(symptoms) THEN PyStr(<<"prompt">>)
     ELSE IF CritiqueFormatSymptoms(symptoms.v).t = "raise"
          THEN CritiqueFormatSymptoms(symptoms.v)
     ELSE PyStr(<<"prompt">>)

\* The JSON object a critique parses to.
CritiqueSample ==
  PyDict(<< <<Key("inconsistencies"), EmptyList>>,
            <<Key("gaps"), PyList(<<PyStr(<<"few results">>)>>)>>,
            <<Key("red_flags"), EmptyList>> >>)

\* Outcomes of the critique generation call followed by json.loads.
CritiqueCallOutcomes == {Raise("APIError"), CritiqueSample}

\* _critique_evidence
CritiqueEvidenceOutcomes(st) ==
  IF critique_agent_user(st).t = "raise" THEN {critique_agent_user(st)}
  ELSE CritiqueCallOutcomes

Str_report_considerations ==
  <<"P","o","t","e","n","t","i","a","l"," ","C","o","n","s","i","d","e","r","a","t","i","o","n","s","\n","-"," ","f","l","u",":"," ","m","i","l","d","\n","T","R","I","A","G","E","_","L","E","V","E","L",":"," ","U","r","g","e","n","t">>
Str_report_no_trailer == <<"n","o"," ","t","r","a","i","l","e","r"," ","h","e","r","e">>

\* Contents the report generation returns in a run: a report with a
\* considerations section and a trailer, a text without trailer, a text
\* that ends in a lone surrogate (as the JSON decoding of the API reply
\* yields for an unpaired \ud83d escape), and no content at all
\* (message.content is Optional).
ReportSamples ==
  {PyStr(Str_report_considerations), PyStr(Str_report_no_trailer),
   PyStr(<<"r","e","p","o","r","t"," ","U+D83D">>), PyNone}

\* A report step that clears the image bytes before it returns the state.
SynthesizeReportBody_dropsImage(st, full_report_text) ==
  [st EXCEPT !.triage_level = ExtractTriage(full_report_text, @),
             !.final_report = full_report_text,
             !.image_data = PyNone]

\* Lines 438-449 of _synthesize_report, for the response content.
SynthesizeReportBody(st, full_report_text) ==
  [st EXCEPT !.triage_level = ExtractTriage(full_report_text, @),
             !.final_report = full_report_text]

\* _synthesize_report for a generation outcome (content, or Raise).
SynthesizeReport(st, call) ==
  IF synthesis_report_user(st).t = "raise" THEN synthesis_report_user(st)
  ELSE IF call.t = "raise" THEN call
  ELSE StateRef(SynthesizeReportBody(st, call))

Str_potential_considerations ==
  <<"P","o","t","e","n","t","i","a","l"," ","C","o","n","s","i","d","e","r","a","t","i","o","n","s">>
Str_safety_header ==
  <<"\n","\n","#","#"," ","U+1F6A8"," ","S","a","f","e","t","y"," ","W","a","r","n","i","n","g","s","\n","\n">>

\* str.lstrip('*- ')
RECURSIVE LStripBullet(_)
LStripBullet(s) ==
  IF s = <<>> THEN s
  ELSE IF Head(s) \in {"*", "-", " "} THEN LStripBullet(Tail(s)) ELSE s

\* The loop over the lines of the considerations section.
RECURSIVE ConditionsOfLines(_)
ConditionsOfLines(lines) ==
  IF lines = <<>> THEN <<>>
  ELSE LET stripped == Strip(Head(lines))
       IN (IF stripped # <<>> /\ stripped[1] \in {"*", "-"}
           THEN <<Split(Strip(LStripBullet(stripped)), <<":">>)[1]>>
           ELSE <<>>) \o ConditionsOfLines(Tail(lines))

\* potential_conditions of _check_drug_interactions.
PotentialConditions(final_report) ==
  IF Truthy(final_report) /\ Contains(final_report.v, Str_potential_considerations)
  THEN ConditionsOfLines(Split(Split(final_report.v, Str_potential_considerations)[2], Str_NL))
  ELSE <<>>

\* Warning lists the drug service returns.
WarningSamples == {<<>>, <<"warning1", "warning2">>}

\* "\n".join([f"- {w}" for w in warnings])
WarningLines(warnings) == Join([i \in 1..Len(warnings) |-> <<"-", " ", warnings[i]>>], Str_NL)

\* DrugService.check_interactions: patient_history.lower() raises on None;
\* `warnings` is what the drug database and the patterns find in the text.
check_interactions(conditions, patient_history, warnings) ==
  IF patient_history.t # "str" THEN Raise("AttributeError")
  ELSE PyDict(<< <<Key("warnings"), PyList(warnings)>>,
                 <<Key("interaction_risk"), PyStr(<<"risk">>)>> >>)

\* A drug check that writes the warnings section in place of the report.
CheckDrugInteractions_replacesReport(st, warnings) ==
  LET potential_conditions == PotentialConditions(st.final_report)
      patient_history == IF Truthy(st.patient_details)
                         THEN DictGet(st.patient_details, Key("medical_history"), PyStr(<<>>))
                         ELSE PyStr(<<>>)
  IN IF potential_conditions = <<>> \/ warnings = <<>> THEN StateRef(st)
     ELSE IF patient_history.t # "str" THEN Raise("AttributeError")
     ELSE StateRef([st EXCEPT
            !.drug_interaction_warnings = PyList(warnings),
            !.final_report = PyStr(Str_safety_header \o WarningLines(warnings))])

\* _check_drug_interactions, the drug service answering with `warnings`.
CheckDrugInteractions(st, warnings) ==
  LET potential_conditions == PotentialConditions(st.final_report)
      patient_history == IF Truthy(st.patient_details)
                         THEN DictGet(st.patient_details, Key("medical_history"), PyStr(<<>>))
                         ELSE PyStr(<<>>)
      interaction_results == check_interactions(potential_conditions, patient_history, warnings)
  IN IF potential_conditions = <<>> THEN StateRef(st)
     ELSE IF interaction_results.t = "raise" THEN interaction_results
     ELSE IF Truthy(DictGet(interaction_results, Key("warnings"), PyNone))
     THEN StateRef([st EXCEPT
            !.drug_interaction_warnings = DictGet(interaction_results, Key("warnings"), PyNone),
            !.final_report = PyStr(@.v \o Str_safety_header \o WarningLines(warnings))])
     ELSE StateRef(st)

\* ------------------------------------------------------- evidence branches
\* The evidence steps in the order run() puts them in evidence_tasks.
EvidenceSteps == <<"PubMedSearcher", "OpenAlexSearcher", "CaseSearcher", "ImagingAnalyzer">>
EvidenceStepSet == {EvidenceSteps[i] : i \in 1..Len(EvidenceSteps)}
LaunchIndex(b) == CHOOSE i \in 1..Len(EvidenceSteps) : EvidenceSteps[i] = b

\* The function has reached an await of an executor call.
Await == [t |-> "await"]

\* [s.get('name', '') for s in symptoms if s.get('name')] of
\* _search_case_database: the names, or what the comprehension raises.
RECURSIVE CaseSymptomNames(_)
CaseSymptomNames(symptoms) ==
  IF symptoms = <<>> THEN PyList(<<>>)
  ELSE IF Head(symptoms).t # "dict" THEN Raise("AttributeError")
  ELSE LET name == DictGet(Head(symptoms), Key("name"), PyStr(<<>>))
           rest == CaseSymptomNames(Tail(symptoms))
       IN IF rest.t = "raise" THEN rest
          ELSE PyList((IF Truthy(name) THEN <<name>> ELSE <<>>) \o rest.v)

\* Literature branches that hand every query, also the empty one, to their
\* search backend.
FirstSegment_searchesEmptyQuery(b, st, chroma) ==
  CASE b \in {"PubMedSearcher", "OpenAlexSearcher"} ->
         LET query == SmartSearchQuery(st.structured_symptoms, st.patient_details)
         IN IF query.t = "raise" THEN query ELSE Await
    [] b = "CaseSearcher" -> EmptyList
    [] b = "ImagingAnalyzer" -> IF ~Truthy(st.image_data) THEN PyNone ELSE Await

\* The code of an evidence function up to its first await: the value it
\* returns or the exception it raises before awaiting anything, else Await.
FirstSegment(b, st, chroma) ==
  CASE b \in {"PubMedSearcher", "OpenAlexSearcher"} ->
         LET query == SmartSearchQuery(st.structured_symptoms, st.patient_details)
         IN IF query.t = "raise" THEN query
            ELSE IF query.v = <<>> THEN EmptyList
            ELSE Await
    [] b = "CaseSearcher" ->
         IF chroma = PyNone THEN EmptyList
         ELSE LET symptoms == CaseSymptomNames(DictGet(st.structured_symptoms, Key("symptoms"), EmptyList).v)
              IN IF symptoms.t = "raise" THEN symptoms
                 ELSE IF symptoms.v = <<>> THEN EmptyList
                 \* ' and '.join(symptoms) takes str items only
                 ELSE IF \E i \in 1..Len(symptoms.v) : symptoms.v[i].t # "str"
                      THEN Raise("TypeError")
                 \* get_collection raises inside the try block, before the await
                 ELSE IF "medical_cases" \notin chroma.collections THEN EmptyList
                 ELSE Await
    [] b = "ImagingAnalyzer" ->
         IF ~Truthy(st.image_data) THEN PyNone ELSE Await

\* What the awaited executor call can deliver, by branch and stage: a value,
\* an exception, or (PubMed ids found) the next await.
BackendOutcomes(b, stage) ==
  CASE b = "PubMedSearcher" /\ stage = "search" -> {Raise("RuntimeError"), EmptyList, Await}
    [] b = "PubMedSearcher" /\ stage = "fetch" -> {Raise("RuntimeError")} \cup PubMedLists
    [] b = "OpenAlexSearcher" -> {Raise("RuntimeError")} \cup OpenAlexLists
    [] b = "CaseSearcher" -> {Raise("RuntimeError")} \cup CaseLists
    [] b = "ImagingAnalyzer" ->
         {Raise("APIError"), PyDict(<< <<Key("analysis"), PyStr(<<"analysis">>)>> >>)}

\* The rest of the evidence function once its awaited call delivered `call`.
\* _search_openalex and _search_case_database catch what the call raises.
AfterAwait(b, call) ==
  CASE b = "PubMedSearcher" -> call
    [] b \in {"OpenAlexSearcher", "CaseSearcher"} ->
         IF call.t = "raise" THEN EmptyList
         ELSE IF Truthy(call) THEN call ELSE EmptyList
    [] b = "ImagingAnalyzer" -> call

\* list + list; any other operand types raise TypeError.
PyAdd(a, b) ==
  IF a.t = "list" /\ b.t = "list" THEN PyList(a.v \o b.v) ELSE Raise("TypeError")

\* isinstance(result, Exception) on a result of gather.
IsExceptionResult(result) == result.t = "raise" /\ IsException(result.exc)

\* A merge that keeps a result only when no branch failed.
MergeEvidence_allOrNothing(st, results) ==
  IF \E i \in 1..Len(results) : results[i] = EmptyList \/ results[i] = EmptyDict
  THEN StateRef(st)
  ELSE StateRef([st EXCEPT
         !.literature_evidence = PyList(results[1].v \o results[2].v),
         !.case_database_evidence = results[3]])

\* A merge that ranks the items of each literature branch anew, the last
\* returned item first.
MergeEvidence_reranked(st, results) ==
  LET Reversed(r) == IF r.t = "list" THEN [i \in 1..Len(r.v) |-> r.v[Len(r.v) + 1 - i]] ELSE <<>>
  IN StateRef([st EXCEPT
       !.literature_evidence = PyList(Reversed(results[1]) \o Reversed(results[2])),
       !.case_database_evidence = IF results[3].t = "list" THEN results[3] ELSE EmptyList,
       !.imaging_findings = IF Truthy(st.image_data) /\ Len(results) > 3
                            THEN (IF ~IsExceptionResult(results[4]) THEN results[4] ELSE PyNone)
                            ELSE @])

\* Lines 163-169 of run: the state after merging the results of gather, or
\* the exception the merge raises.
MergeEvidence(st, results) ==
  LET pubmed_results == IF ~IsExceptionResult(results[1]) THEN results[1] ELSE EmptyList
      openalex_results == IF ~IsExceptionResult(results[2]) THEN results[2] ELSE EmptyList
      literature_evidence == PyAdd(pubmed_results, openalex_results)
      st1 == [st EXCEPT
               !.literature_evidence = literature_evidence,
               !.case_database_evidence =
                  IF ~IsExceptionResult(results[3]) THEN results[3] ELSE EmptyList]
  IN IF literature_evidence.t = "raise" THEN literature_evidence
     ELSE IF Truthy(st.image_data) /\ Len(results) > 3
     THEN StateRef([st1 EXCEPT !.imaging_findings =
                      IF ~IsExceptionResult(results[4]) THEN results[4] ELSE PyNone])
     ELSE StateRef(st1)

\* ------------------------------------------------------------------ state
VARIABLES
  pc,             \* where run() stands
  state,          \* the DiagnosticState of the run
  chroma_client,  \* the ChromaDB client of the workflow, None when it has none
  tasks,          \* the evidence tasks of gather
  log,            \* the audit events of the run, per agent, in order
  response,       \* the value the call under study returned: the content of
                  \* the report generation response, the builder's query, or
                  \* the HTTP response of the diagnose handler
  suspended,      \* the frame of the other run() on the same workflow, which
                  \* the event loop is not executing; None when there is one run
  audit_log,      \* the rows of table audit_log of audit.db, in insertion order
  log_step_call   \* the call of backend/audit_logger.py's log_step that ended
                  \* last: its arguments and how it ended; None before any

vars == <<pc, state, chroma_client, tasks, log, response, suspended, audit_log,
          log_step_call>>

NoTask == [status |-> "none", func |-> PyNone, result |-> PyNone]
PendingTask == [status |-> "pending", func |-> PyNone, result |-> PyNone]

PatientIds == {1, 2, 3}
ImageInputs == {PyNone, PyBytes(<<>>), PyBytes(<<"jpeg">>)}

\* After __init__ and the first lines of run: self.chroma_client is None, or
\* a client of a store with or without the collection medical_cases.
Init ==
  /\ pc = "SymptomAnalyzer"
  /\ \E patient_id \in PatientIds, image_data \in ImageInputs :
       state = DiagnosticState("diag_1", patient_id, PyStr(<<"symptoms text">>), image_data)
  /\ chroma_client \in {PyNone, [t |-> "client", collections |-> {}],
                        [t |-> "client", collections |-> {"medical_cases"}]}
  /\ tasks = [b \in EvidenceStepSet |-> NoTask]
  /\ log = LogStep(EmptyLog, LogEvent("Orchestrator", "START", "SUCCESS"))
  /\ response = PyNone
  /\ suspended = PyNone
  /\ audit_log = <<>>
  /\ log_step_call = PyNone

\* The except clause of run (lines 180-184) for an exception that reached
\* it, or the exception leaving run when the clause does not catch it.
RunExcept(st, exc, lg) ==
  IF IsException(exc)
  THEN /\ pc' = "returned"
       /\ state' = [st EXCEPT !.error_message = WorkflowFailed(exc)]
       /\ log' = LogStep(lg, LogEvent("Orchestrator", "FATAL_ERROR", "FAILURE"))
  ELSE /\ pc' = "raised"
       /\ state' = st
       /\ log' = lg

\* Line 147, in the two steps the event loop takes: _safe_step logs START
\* and _analyze_symptoms awaits its executor call (the run is suspended,
\* with START as the whole trail of the step); when the call completes, the
\* rest of the function and of _safe_step runs and run assigns the result.
AnalyzeSymptoms ==
  /\ pc = "SymptomAnalyzer"
  /\ \/ /\ log["SymptomAnalyzer"] = <<>>
        /\ log' = LogStep(log, StartEvent("SymptomAnalyzer"))
        /\ UNCHANGED <<pc, state>>
     \/ /\ log["SymptomAnalyzer"] # <<>>
        /\ \E out \in AnalyzeSymptomsOutcomes :
             LET r == SafeStep(state, "SymptomAnalyzer", out, FALSE)
                 lg == LogSteps(log, r.events)
             IN IF r.raised THEN RunExcept(r.st, r.ret.exc, lg)
                ELSE /\ state' = [r.st EXCEPT !.structured_symptoms = r.ret]
                     /\ pc' = "EHR_Fetcher"
                     /\ log' = lg
  /\ UNCHANGED <<chroma_client, suspended, audit_log, log_step_call, tasks, response>>

\* Line 148, in two steps: START and the await of the lookup in the
\* executor; then the rest of _fetch_ehr_data and of _safe_step.
FetchEhr ==
  /\ pc = "EHR_Fetcher"
  /\ \/ /\ log["EHR_Fetcher"] = <<>>
        /\ log' = LogStep(log, StartEvent("EHR_Fetcher"))
        /\ UNCHANGED <<pc, state>>
     \/ /\ log["EHR_Fetcher"] # <<>>
        /\ \E db_ok \in BOOLEAN :
             LET r == SafeStep(state, "EHR_Fetcher", FetchEhrData(state.patient_id, db_ok), FALSE)
                 lg == LogSteps(log, r.events)
             IN IF r.raised THEN RunExcept(r.st, r.ret.exc, lg)
                ELSE /\ state' = [r.st EXCEPT !.patient_details = r.ret]
                     /\ pc' = "evidence_tasks"
                     /\ log' = lg
  /\ UNCHANGED <<chroma_client, suspended, audit_log, log_step_call, tasks, response>>

\* A launch that appends the image analysis whether or not there is an image.
LaunchEvidence_alwaysImaging ==
  /\ pc = "evidence_tasks"
  /\ tasks' = [b \in EvidenceStepSet |-> PendingTask]
  /\ pc' = "gather"
  /\ UNCHANGED <<state, chroma_client, suspended, audit_log, log_step_call, log, response>>

\* Lines 152-160: the evidence tasks are created and handed to gather.
LaunchEvidence ==
  /\ pc = "evidence_tasks"
  /\ tasks' = [b \in EvidenceStepSet |->
                 IF b = "ImagingAnalyzer" /\ ~Truthy(state.image_data)
                 THEN NoTask ELSE PendingTask]
  /\ pc' = "gather"
  /\ UNCHANGED <<state, chroma_client, suspended, audit_log, log_step_call, log, response>>

\* The task of branch b ends: _safe_step handles the outcome of its function.
FinishTask(b, out, lg) ==
  LET r == SafeStep(state, b, out, FALSE)
  IN /\ state' = r.st
     /\ tasks' = [tasks EXCEPT ![b] = [status |-> "done", func |-> out, result |-> r.ret]]
     /\ log' = LogSteps(lg, r.events)

\* A task runs for the first time, in launch order: _safe_step logs START
\* and the function runs to its first await, or to its end.
BranchStart(b) ==
  /\ pc = "gather"
  /\ tasks[b].status = "pending"
  /\ \A b2 \in EvidenceStepSet :
       LaunchIndex(b2) < LaunchIndex(b) => tasks[b2].status # "pending"
  /\ LET first == FirstSegment(b, state, chroma_client)
         lg == LogStep(log, StartEvent(b))
     IN IF first = Await
        THEN /\ tasks' = [tasks EXCEPT ![b].status = "search"]
             /\ log' = lg
             /\ state' = state
        ELSE FinishTask(b, first, lg)
  /\ UNCHANGED <<pc, chroma_client, suspended, audit_log, log_step_call, response>>

\* The executor call a task awaits completes.
BranchResume(b) ==
  /\ pc = "gather"
  /\ tasks[b].status \in {"search", "fetch"}
  /\ \E call \in BackendOutcomes(b, tasks[b].status) :
       IF call = Await
       THEN /\ tasks' = [tasks EXCEPT ![b].status = "fetch"]
            /\ UNCHANGED <<state, log>>
       ELSE FinishTask(b, AfterAwait(b, call), log)
  /\ UNCHANGED <<pc, chroma_client, suspended, audit_log, log_step_call, response>>

\* gather with one coroutine finished, not all.
GatherReady_firstCompleted(tk) == \E b \in EvidenceStepSet : tk[b].status = "done"

\* `await asyncio.gather(*evidence_tasks, return_exceptions=True)` resumes
\* when every task it was given has ended.
GatherReady(tk) == \A b \in EvidenceStepSet : tk[b].status \in {"none", "done"}

\* The results of gather, in launch order.
GatherResults(tk) ==
  LET n == Cardinality({b \in EvidenceStepSet : tk[b].status # "none"})
  IN [i \in 1..n |-> tk[EvidenceSteps[i]].result]

\* Lines 160-169.
Gather ==
  /\ pc = "gather"
  /\ GatherReady(tasks)
  /\ LET merged == MergeEvidence(state, GatherResults(tasks))
     IN IF merged.t = "raise" THEN RunExcept(state, merged.exc, log)
        ELSE /\ state' = merged.v
             /\ pc' = "CritiqueAgent"
             /\ log' = log
  /\ UNCHANGED <<chroma_client, suspended, audit_log, log_step_call, tasks, response>>

\* Line 173, in two steps: START and _critique_evidence up to the await of
\* its generation call (a prompt that raises ends the step at once, without
\* an await); then the rest of the function and of _safe_step.
Critique ==
  /\ pc = "CritiqueAgent"
  /\ \/ /\ log["CritiqueAgent"] = <<>>
        /\ critique_agent_user(state).t # "raise"
        /\ log' = LogStep(log, StartEvent("CritiqueAgent"))
        /\ UNCHANGED <<pc, state>>
     \/ /\ log["CritiqueAgent"] = <<>> <=> critique_agent_user(state).t = "raise"
        /\ \E out \in CritiqueEvidenceOutcomes(state) :
             LET r == SafeStep(state, "CritiqueAgent", out, FALSE)
                 lg == LogSteps(log, (IF log["CritiqueAgent"] = <<>>
                                      THEN <<StartEvent("CritiqueAgent")>> ELSE <<>>)
                                     \o r.events)
             IN IF r.raised THEN RunExcept(r.st, r.ret.exc, lg)
                ELSE /\ state' = [r.st EXCEPT !.critique_notes = r.ret]
                     /\ pc' = "ReportSynthesizer"
                     /\ log' = lg
  /\ UNCHANGED <<chroma_client, suspended, audit_log, log_step_call, tasks, response>>

\* Outcomes of the report generation call.
ReportCallOutcomes == {Raise("APIError")} \cup ReportSamples

\* Line 174, in two steps: START and _synthesize_report up to the await of
\* its generation call (a prompt that raises ends the step at once, without
\* an await); then the rest of the function and of _safe_step.
Report ==
  /\ pc = "ReportSynthesizer"
  /\ \/ /\ log["ReportSynthesizer"] = <<>>
        /\ synthesis_report_user(state).t # "raise"
        /\ log' = LogStep(log, StartEvent("ReportSynthesizer"))
        /\ UNCHANGED <<pc, state, response>>
     \/ /\ log["ReportSynthesizer"] = <<>> <=> synthesis_report_user(state).t = "raise"
        /\ \E call \in ReportCallOutcomes :
             LET out == SynthesizeReport(state, call)
                 r == SafeStep(state, "ReportSynthesizer", out, TRUE)
                 lg == LogSteps(log, (IF log["ReportSynthesizer"] = <<>>
                                      THEN <<StartEvent("ReportSynthesizer")>> ELSE <<>>)
                                     \o r.events)
             IN /\ response' = IF out.t = "raise" THEN response ELSE call
                /\ IF r.raised THEN RunExcept(r.st, r.ret.exc, lg)
                   ELSE /\ state' = r.ret.v
                        /\ pc' = "DrugChecker"
                        /\ log' = lg
  /\ UNCHANGED <<chroma_client, suspended, audit_log, log_step_call, tasks>>

\* Lines 175-178: _check_drug_interactions awaits nothing, the step and the
\* return of run follow the report step in one step of the event loop.
DrugCheck ==
  /\ pc = "DrugChecker"
  /\ \E warnings \in WarningSamples :
       LET out == CheckDrugInteractions(state, warnings)
           r == SafeStep(state, "DrugChecker", out, TRUE)
           lg == LogSteps(log, <<StartEvent("DrugChecker")>> \o r.events)
       IN IF r.raised THEN RunExcept(r.st, r.ret.exc, lg)
          ELSE /\ state' = r.ret.v
               /\ pc' = "returned"
               /\ log' = LogStep(lg, LogEvent("Orchestrator", "END", "SUCCESS"))
  /\ UNCHANGED <<chroma_client, suspended, audit_log, log_step_call, tasks, response>>

Next ==
  \/ AnalyzeSymptoms
  \/ FetchEhr
  \/ LaunchEvidence
  \/ \E b \in EvidenceStepSet : BranchStart(b)
  \/ \E b \in EvidenceStepSet : BranchResume(b)
  \/ Gather
  \/ Critique
  \/ Report
  \/ DrugCheck

Spec == Init /\ [][Next]_vars

\* ------------------------------------- two runs on one workflow instance
\* main.py keeps one OrchestratorWorkflow for all requests: two calls of
\* run() are two coroutines of one event loop, which executes one of them
\* from an await to its next await and then may resume the other. `state`
\* is a local of run(); of the instance a run reads chroma_client only (the
\* services' _rate_limit sleeps and keeps nothing).
RunIds == {"diag_1", "diag_2"}

\* The frame of a call of run(): its arguments and locals.
Frame(diagnosis_id, pc0, st, tk, lg, resp) ==
  [diagnosis_id |-> diagnosis_id, pc |-> pc0, state |-> st, tasks |-> tk,
   log |-> lg, response |-> resp]

\* The symptom extractions of the two-run scenario.
PairSymptoms ==
  {PyDict(<< <<Key("symptoms"), PyList(<<Symptom(PyStr(Str_rash), PyList(<<PyStr(Str_slapped_cheek)>>))>>)>> >>)}

\* The scenario: in the first run the extraction fails or gives one of
\* PairSymptoms and every later call has all its outcomes; in the second
\* run the PubMed search fails, the extraction, the lookup and the critique
\* succeed and the report is generated or fails.
InPairScenario ==
  IF state.diagnosis_id = "diag_1"
  THEN state.structured_symptoms \in {PyNone, EmptyDict} \cup PairSymptoms
  ELSE /\ state.structured_symptoms \in {PyNone} \cup PairSymptoms
       /\ state.patient_details \in {PyNone, PyDict(PatientRow(2))}
       /\ tasks["PubMedSearcher"].func.t \in {"None", "raise"}
       /\ state.critique_notes # EmptyDict
       /\ response \in {PyNone, PyStr(Str_report_considerations)}

InitPair ==
  /\ pc = "SymptomAnalyzer"
  /\ state = DiagnosticState("diag_1", 1, PyStr(<<"symptoms text">>), PyNone)
  /\ chroma_client = PyNone
  /\ tasks = [b \in EvidenceStepSet |-> NoTask]
  /\ log = LogStep(EmptyLog, LogEvent("Orchestrator", "START", "SUCCESS"))
  /\ response = PyNone
  /\ suspended = Frame("diag_2", "SymptomAnalyzer",
                       DiagnosticState("diag_2", 2, PyStr(<<"symptoms text">>), PyNone),
                       tasks, log, PyNone)
  /\ audit_log = <<>>
  /\ log_step_call = PyNone

\* The run the event loop is executing.
Running == CHOOSE r \in RunIds : r # suspended.diagnosis_id

\* The running coroutine is where the event loop can take over: it has not
\* begun, it awaits the executor call of a sequential step (the step has
\* logged START) or gather, or it has ended. Between the end of a step and
\* the await of the next one the run keeps the loop.
AtAwait ==
  \/ pc \in {"SymptomAnalyzer", "gather", "returned", "raised"}
  \/ pc \in {"EHR_Fetcher", "CritiqueAgent", "ReportSynthesizer"} /\ log[pc] # <<>>

\* The switch of a workflow that kept the record of the run on itself
\* (self.state): the resumed run goes on with the record that is there.
SwitchRun_sharedRecord ==
  /\ suspended # PyNone
  /\ AtAwait
  /\ suspended.pc \notin {"returned", "raised"}
  /\ pc' = suspended.pc
  /\ state' = state
  /\ tasks' = suspended.tasks
  /\ log' = suspended.log
  /\ response' = suspended.response
  /\ suspended' = Frame(Running, pc, state, tasks, log, response)
  /\ UNCHANGED <<chroma_client, audit_log, log_step_call>>

\* The running coroutine awaits (or has returned) and the event loop resumes
\* the other one, with its own locals.
SwitchRun ==
  /\ suspended # PyNone
  /\ AtAwait
  /\ suspended.pc \notin {"returned", "raised"}
  /\ pc' = suspended.pc
  /\ state' = suspended.state
  /\ tasks' = suspended.tasks
  /\ log' = suspended.log
  /\ response' = suspended.response
  /\ suspended' = Frame(Running, pc, state, tasks, log, response)
  /\ UNCHANGED <<chroma_client, audit_log, log_step_call>>

\* The running coroutine takes its next step.
StepRun == Next /\ InPairScenario'

NextPair ==
  \/ StepRun
  \/ SwitchRun

PairSpec == InitPair /\ [][NextPair]_vars

\* ------------------------------------------- triage extraction on its own
ReportParts == {TRIAGE_MARKER, <<" ">>, <<"\n">>, <<"\f">>, <<"U">>, <<"r">>}

\* The texts made of at most n parts.
RECURSIVE TextsOf(_)
TextsOf(n) ==
  IF n = 0 THEN {<<>>}
  ELSE TextsOf(n - 1) \cup {t \o p : t \in TextsOf(n - 1), p \in ReportParts}

InitTriage ==
  /\ pc = "triage"
  /\ state = DiagnosticState("diag_1", 1, PyStr(<<"symptoms text">>), PyNone)
  /\ chroma_client = PyNone
  /\ tasks = [b \in EvidenceStepSet |-> NoTask]
  /\ log = EmptyLog
  /\ response \in {PyStr(t) : t \in TextsOf(MaxParts)} \cup {PyNone}
  /\ suspended = PyNone
  /\ audit_log = <<>>
  /\ log_step_call = PyNone

\* Lines 438-449 applied to the response content.
ApplyTriage ==
  /\ pc = "triage"
  /\ state' = SynthesizeReportBody(state, response)
  /\ pc' = "triage_done"
  /\ UNCHANGED <<chroma_client, suspended, audit_log, log_step_call, tasks, log, response>>

TriageSpec == InitTriage /\ [][ApplyTriage]_vars

\* ----------------------------------------------- query builder on its own
Str_mild == <<"m","i","l","d">>
\* "SLAPPED CHEEK" written with the Kelvin sign, which lower() turns into k.
Str_SLAPPED_CHEEK == <<"S","L","A","P","P","E","D"," ","C","H","E","E","U+212A">>
Str_Target_Lesion_on_arm ==
  <<"T","a","r","g","e","t"," ","L","e","s","i","o","n"," ","o","n"," ","a","r","m">>

\* Symptoms as the extraction schema gives them: a high-value qualifier, two
\* plain symptoms, a symptom without name, a symptom whose name is a
\* high-value term in capitals, a high-value qualifier after a plain one, and
\* qualifiers given as one string and as an object (whose second key is a
\* high-value term) instead of an array.
QuerySymptoms ==
  { Symptom(PyStr(Str_rash), PyList(<<PyStr(Str_slapped_cheek)>>)),
    Symptom(PyStr(Str_cough), EmptyList),
    Symptom(PyStr(Str_fever), EmptyList),
    Symptom(PyStr(<<>>), EmptyList),
    Symptom(PyStr(Str_SLAPPED_CHEEK), EmptyList),
    Symptom(PyStr(Str_rash), PyList(<<PyStr(Str_mild), PyStr(Str_Target_Lesion_on_arm)>>)),
    Symptom(PyStr(Str_cough), PyStr(Str_slapped_cheek)),
    Symptom(PyStr(Str_cough),
            PyDict(<< <<<<"s","e","v","e","r","i","t","y">>, PyStr(Str_mild)>>,
                      <<<<"t","a","r","g","e","t"," ","l","e","s","i","o","n">>,
                        PyStr(<<"a","r","m">>)>> >>)) }

\* The symptom lists of at most n symptoms.
RECURSIVE SymptomListsOf(_)
SymptomListsOf(n) ==
  IF n = 0 THEN {<<>>}
  ELSE SymptomListsOf(n - 1)
         \cup {Append(l, x) : l \in SymptomListsOf(n - 1), x \in QuerySymptoms}

\* patient_details as run leaves it: the default of a failed lookup, the
\* child, the adult, and a patient aged 18.
QueryPatients ==
  {EmptyDict, PyDict(PatientRow(1)), PyDict(PatientRow(2)),
   PyDict([PatientRow(2) EXCEPT ![3][2] = PyInt(18)])}

InitQuery ==
  /\ pc = "query"
  /\ \E l \in SymptomListsOf(MaxSymptoms), patient \in QueryPatients :
       state = [DiagnosticState("diag_1", 1, PyStr(<<"symptoms text">>), PyNone)
                  EXCEPT !.structured_symptoms = PyDict(<< <<Key("symptoms"), PyList(l)>> >>),
                         !.patient_details = patient]
  /\ chroma_client = PyNone
  /\ tasks = [b \in EvidenceStepSet |-> NoTask]
  /\ log = EmptyLog
  /\ response = PyNone
  /\ suspended = PyNone
  /\ audit_log = <<>>
  /\ log_step_call = PyNone

\* _get_smart_search_query(state)
ApplyQuery ==
  /\ pc = "query"
  /\ response' = SmartSearchQuery(state.structured_symptoms, state.patient_details)
  /\ pc' = "query_done"
  /\ UNCHANGED <<state, chroma_client, suspended, audit_log, log_step_call, tasks, log>>

QuerySpec == InitQuery /\ [][ApplyQuery]_vars

\* ------------------------------------------------------ lexicon matcher
\* HIGH_VALUE_QUALIFIERS (the fallback table), flattened in the order
\* `for category ... for q in qualifiers` visits it.
HIGH_VALUE_QUALIFIERS ==
  << <<"s","l","a","p","p","e","d"," ","c","h","e","e","k">>,
     <<"b","u","l","l","'","s","-","e","y","e">>,
     <<"t","a","r","g","e","t"," ","l","e","s","i","o","n">>,
     <<"w","h","o","o","p","i","n","g"," ","c","o","u","g","h">>,
     <<"p","a","r","o","x","y","s","m","a","l"," ","c","o","u","g","h">>,
     <<"n","u","c","h","a","l"," ","r","i","g","i","d","i","t","y">>,
     <<"p","h","o","t","o","p","h","o","b","i","a">> >>

\* The length of the common run of a from i and b from j, within a[..ahi]
\* and b[..bhi].
RECURSIVE RunLength(_, _, _, _, _, _)
RunLength(a, b, i, j, ahi, bhi) ==
  IF i > ahi \/ j > bhi THEN 0
  ELSE IF a[i] # b[j] THEN 0
  ELSE 1 + RunLength(a, b, i + 1, j + 1, ahi, bhi)

\* SequenceMatcher.find_longest_match on a[alo..ahi], b[blo..bhi] without
\* junk: <<i, j, k>> with k maximal, then i minimal, then j minimal.
FindLongestMatch(a, b, alo, ahi, blo, bhi) ==
  LET starts == {p \in (alo..ahi) \X (blo..bhi) : a[p[1]] = b[p[2]]}
      size(p) == RunLength(a, b, p[1], p[2], ahi, bhi)
  IN IF starts = {} THEN <<alo, blo, 0>>
     ELSE LET best == CHOOSE p \in starts :
                        \A q \in starts :
                          \/ size(p) > size(q)
                          \/ /\ size(p) = size(q)
                             /\ \/ p[1] < q[1]
                                \/ p[1] = q[1] /\ p[2] <= q[2]
          IN <<best[1], best[2], size(best)>>

\* The sum of the sizes of SequenceMatcher.get_matching_blocks: the longest
\* match, then the same to its left and to its right.
RECURSIVE MatchedCharacters(_, _, _, _, _, _)
MatchedCharacters(a, b, alo, ahi, blo, bhi) ==
  IF alo > ahi \/ blo > bhi THEN 0
  ELSE LET m == FindLongestMatch(a, b, alo, ahi, blo, bhi)
       IN IF m[3] = 0 THEN 0
          ELSE m[3]
               + MatchedCharacters(a, b, alo, m[1] - 1, blo, m[2] - 1)
               + MatchedCharacters(a, b, m[1] + m[3], ahi, m[2] + m[3], bhi)

\* SequenceMatcher(None, a, b).ratio() > 0.8, ratio being 2.0 * M / T
\* (1.0 when both are empty).
RatioAboveThreshold(a, b) ==
  LET matches == MatchedCharacters(a, b, 1, Len(a), 1, Len(b))
      length == Len(a) + Len(b)
  IN IF length = 0 THEN TRUE ELSE 10 * matches > 4 * length

\* match_high_value(qualifier): the first phrase whose ratio with the
\* lower-cased qualifier is above the threshold, None when there is none.
match_high_value(qualifier) ==
  LET qualifier_lower == Lower(qualifier)
      hits == {n \in 1..Len(HIGH_VALUE_QUALIFIERS) :
                 RatioAboveThreshold(qualifier_lower, HIGH_VALUE_QUALIFIERS[n])}
  IN IF hits = {} THEN PyNone
     ELSE PyStr(HIGH_VALUE_QUALIFIERS[CHOOSE n \in hits : \A m \in hits : n <= m])

Str_appearance == <<" ","a","p","p","e","a","r","a","n","c","e">>
Str_unrelated_term_xyz ==
  <<"u","n","r","e","l","a","t","e","d"," ","t","e","r","m"," ","x","y","z">>

\* The parts qualifiers are made of.
QualifierParts ==
  {Str_slapped_cheek, Str_appearance, Str_unrelated_term_xyz,
   <<"T","a","r","g","e","t"," ","L","e","s","i","o","n">>,
   <<"p","h","o","t","o","p","h","o","b","i","a">>, <<"s">>, <<"x">>}

\* The qualifiers made of at most n parts.
RECURSIVE QualifiersOf(_)
QualifiersOf(n) ==
  IF n = 0 THEN {<<>>}
  ELSE QualifiersOf(n - 1) \cup {t \o p : t \in QualifiersOf(n - 1), p \in QualifierParts}

InitMatch ==
  /\ pc = "match"
  /\ \E qualifier \in QualifiersOf(MaxWords) :
       state = [DiagnosticState("diag_1", 1, PyStr(<<"symptoms text">>), PyNone)
                  EXCEPT !.structured_symptoms =
                    PyDict(<< <<Key("symptoms"),
                      PyList(<<Symptom(PyStr(<<>>), PyList(<<PyStr(qualifier)>>))>>)>> >>)]
  /\ chroma_client = PyNone
  /\ tasks = [b \in EvidenceStepSet |-> NoTask]
  /\ log = EmptyLog
  /\ response = PyNone
  /\ suspended = PyNone
  /\ audit_log = <<>>
  /\ log_step_call = PyNone

\* The qualifier the matcher is given.
GivenQualifier ==
  DictGet(DictGet(state.structured_symptoms, Key("symptoms"), EmptyList).v[1],
          Key("qualifiers"), EmptyList).v[1].v

\* match_high_value(qualifier)
ApplyMatch ==
  /\ pc = "match"
  /\ response' = match_high_value(GivenQualifier)
  /\ pc' = "match_done"
  /\ UNCHANGED <<state, chroma_client, suspended, audit_log, log_step_call, tasks, log>>

MatchSpec == InitMatch /\ [][ApplyMatch]_vars

\* ------------------------------------------- main.py POST /api/diagnose
\* JSONResponse.render: json.dumps(content, ensure_ascii=False,
\* allow_nan=False).encode("utf-8") succeeds. bytes are not serializable
\* (TypeError) and a str, or a key, that holds a surrogate does not encode
\* (UnicodeEncodeError); the floats of the record are finite.
RECURSIVE JsonSerializable(_)
JsonSerializable(x) ==
  CASE x.t = "bytes" -> FALSE
    [] x.t = "str" -> \A i \in 1..Len(x.v) : x.v[i] \notin Surrogates
    [] x.t = "list" -> \A i \in 1..Len(x.v) : JsonSerializable(x.v[i])
    [] x.t = "dict" -> \A i \in 1..Len(x.v) :
                         /\ \A k \in 1..Len(x.v[i][1]) : x.v[i][1][k] \notin Surrogates
                         /\ JsonSerializable(x.v[i][2])
    [] OTHER -> TRUE

\* raise HTTPException(status_code, detail)
HTTPException(status_code, detail) == [status |-> status_code, detail |-> detail]

\* Lines 94-99: the record with diagnosis_id and timestamp (isoformat of
\* now), as the content of a JSONResponse.
JSONResponse(result, diagnosis_id) ==
  [status |-> 200,
   content |-> [f \in DOMAIN result \cup {"timestamp"} |->
                  IF f = "timestamp" THEN PyStr(<<"2025-01-01T00:00:00">>)
                  ELSE IF f = "diagnosis_id" THEN diagnosis_id
                  ELSE result[f]]]

\* Lines 86-106 of run_diagnosis for the dict `result` that workflow.run
\* returned (asdict of the record, never empty): 400 with the error text
\* when error_message is truthy, otherwise the record; an exception of the
\* rendering is answered 500 by the generic except clause (diagnosis_id,
\* patient_id and the warning texts are a str, an int and a list of str).
HandleResult(result, diagnosis_id) ==
  IF Truthy(result.error_message) THEN HTTPException(400, result.error_message)
  ELSE IF \E f \in DOMAIN result \ {"diagnosis_id", "patient_id", "drug_interaction_warnings"} :
            ~JsonSerializable(result[f])
  THEN HTTPException(500, PyStr(<<"Internal server error">>))
  ELSE JSONResponse(result, diagnosis_id)

\* The handler calls workflow.run without image_data (lines 80-84).
InitDiagnose == Init /\ state.image_data = PyNone

\* run_diagnosis after `await workflow.run(...)` has returned.
run_diagnosis ==
  /\ pc = "returned"
  /\ response' = HandleResult(state, state.diagnosis_id)
  /\ pc' = "responded"
  /\ UNCHANGED <<state, chroma_client, tasks, log, suspended, audit_log, log_step_call>>

NextDiagnose ==
  \/ Next
  \/ run_diagnosis

DiagnoseSpec == InitDiagnose /\ [][NextDiagnose]_vars

\* ------------------------------------------- drug-safety step on its own
\* The record as line 174 leaves it: _synthesize_report in _safe_step for a
\* generation that returns a report, a text without trailer or no content,
\* or raises, for each patient lookup result, with or without an earlier
\* error; `response` is the warning list of the drug service.
InitDrug ==
  /\ pc = "DrugChecker"
  /\ \E report \in ReportCallOutcomes,
        patient \in {EmptyDict, PyDict(PatientRow(1)), PyDict(PatientRow(2))},
        error \in {PyNone, ErrorInStep("PubMedSearcher", "RuntimeError")} :
       LET st == [DiagnosticState("diag_1", 1, PyStr(<<"symptoms text">>), PyNone)
                    EXCEPT !.structured_symptoms = PyDict(<< <<Key("symptoms"), EmptyList>> >>),
                           !.patient_details = patient,
                           !.critique_notes = CritiqueSample,
                           !.error_message = error]
           r == SafeStep(st, "ReportSynthesizer", SynthesizeReport(st, report), TRUE)
       IN state = r.ret.v
  /\ chroma_client = PyNone
  /\ tasks = [b \in EvidenceStepSet |-> NoTask]
  /\ log = EmptyLog
  /\ response \in {PyList(w) : w \in WarningSamples \cup {<<"warning1">>}}
  /\ suspended = PyNone
  /\ audit_log = <<>>
  /\ log_step_call = PyNone

\* Line 175: the drug-safety step in its wrapper, the drug service
\* answering with the warnings in `response`.
ApplyDrugCheck ==
  /\ pc = "DrugChecker"
  /\ LET out == CheckDrugInteractions(state, response.v)
         r == SafeStep(state, "DrugChecker", out, TRUE)
     IN /\ state' = r.ret.v
        /\ log' = LogSteps(log, <<StartEvent("DrugChecker")>> \o r.events)
  /\ pc' = "returned"
  /\ UNCHANGED <<chroma_client, tasks, response, suspended, audit_log, log_step_call>>

DrugSpec == InitDrug /\ [][ApplyDrugCheck]_vars

\* --------------------------------------- backend/audit_logger.py log_step
\* The messages log_step is called with.
AuditMessages ==
  {PyStr(<<"Step initiated.">>), PyStr(<<"Step completed.">>), PyStr(<<"U+D800">>),
   PyStr(<<"a", "U+DFFF", "b">>), PyList(<<PyStr(<<"a">>)>>)}

\* What sqlite3 raises when it binds the value to a `?`, None when it
\* binds: a str must encode as UTF-8, an int must fit the 64-bit INTEGER
\* (v \div 2^63 is 0 or -1), and of the other types None, float and bytes
\* are supported.
BindError(value) ==
  CASE value.t = "str" ->
         IF \E i \in 1..Len(value.v) : value.v[i] \in Surrogates
         THEN Raise("UnicodeEncodeError") ELSE PyNone
    [] value.t = "int" ->
         IF ((value.v \div 2^21) \div 2^21) \div 2^21 \in {-1, 0}
         THEN PyNone ELSE Raise("OverflowError")
    [] value.t \in {"None", "float", "bytes"} -> PyNone
    [] OTHER -> Raise("ProgrammingError")

\* The id the table gives a new row: one above the largest id.
NextRowId(rows) ==
  IF rows = <<>> THEN 1
  ELSE 1 + (CHOOSE n \in {rows[i].id : i \in 1..Len(rows)} :
              \A i \in 1..Len(rows) : rows[i].id <= n)

\* cursor.execute("INSERT INTO audit_log (diagnosis_id, message) VALUES
\* (?, ?)", ...) and conn.commit(): the table afterwards, or what is raised.
\* `db` is the database as the call finds it: ready, without the table
\* audit_log, or with a transaction of another connection holding the
\* exclusive lock or the reserved lock of a writer.
\* The statement is prepared first (no such table; database is locked when
\* the schema cannot be read), then the values are bound, the first
\* parameter first, then the statement runs (database is locked when
\* another writer holds the reserved lock).
ExecuteInsert(rows, diagnosis_id, message, db) ==
  IF db \in {"no_table", "exclusive_lock"} THEN Raise("OperationalError")
  ELSE IF BindError(diagnosis_id) # PyNone THEN BindError(diagnosis_id)
  ELSE IF BindError(message) # PyNone THEN BindError(message)
  ELSE IF db = "reserved_lock" THEN Raise("OperationalError")
  ELSE PyList(Append(rows, [id |-> NextRowId(rows), diagnosis_id |-> diagnosis_id,
                            message |-> message]))

\* "SELECT diagnosis_id, message FROM audit_log ORDER BY id DESC LIMIT 1"
LatestRow(rows) ==
  IF rows = <<>> THEN PyNone
  ELSE LET i == CHOOSE k \in 1..Len(rows) : \A j \in 1..Len(rows) : rows[j].id <= rows[k].id
       IN [diagnosis_id |-> rows[i].diagnosis_id, message |-> rows[i].message]

InitAudit ==
  /\ pc = "audit"
  /\ state = DiagnosticState("diag_1", 1, PyStr(<<"symptoms text">>), PyNone)
  /\ chroma_client = PyNone
  /\ tasks = [b \in EvidenceStepSet |-> NoTask]
  /\ log = EmptyLog
  /\ response = PyNone
  /\ suspended = PyNone
  /\ audit_log = <<>>
  /\ log_step_call = PyNone

\* log_step(diagnosis_id, message). When connect raises, `conn` is unbound
\* in the finally clause and the call ends with UnboundLocalError; what the
\* insert or the commit raises is printed and the call returns.
log_step ==
  /\ pc = "audit"
  /\ Len(audit_log) < MaxRows
  /\ \E diagnosis_id \in {PyStr(<<"diag_1">>), PyStr(<<"diag_2">>)},
        message \in AuditMessages,
        connect_ok \in BOOLEAN,
        db \in {"ready", "no_table", "exclusive_lock", "reserved_lock"} :
       LET inserted == ExecuteInsert(audit_log, diagnosis_id, message, db)
           ended(outcome) == [diagnosis_id |-> diagnosis_id, message |-> message,
                              outcome |-> outcome]
       IN IF ~connect_ok
          THEN /\ audit_log' = audit_log
               /\ log_step_call' = ended(Raise("UnboundLocalError"))
          ELSE IF inserted.t = "raise"
          THEN /\ audit_log' = audit_log
               /\ log_step_call' = ended(PyNone)
          ELSE /\ audit_log' = inserted.v
               /\ log_step_call' = ended(PyNone)
  /\ UNCHANGED <<pc, state, chroma_client, tasks, log, response, suspended>>

AuditSpec == InitAudit /\ [][log_step]_vars

\* ------------------------------------------------------------- properties
Logged(agent_name, action) ==
  \E i \in 1..Len(log[agent_name]) : log[agent_name][i][1] = action
Invoked(step_name) == Logged(step_name, "START")
Failed(step_name) == Logged(step_name, "ERROR")
Finished(step_name) == Logged(step_name, "END") \/ Logged(step_name, "ERROR")

FoundationSteps == {"SymptomAnalyzer", "EHR_Fetcher"}
SynthesisSteps == {"CritiqueAgent", "ReportSynthesizer", "DrugChecker"}
\* run() is past the merge of the Evidence phase.
PastEvidence == pc \in SynthesisSteps \cup {"returned"}
\* The function of branch b raised.
Threw(b) == tasks[b].status = "done" /\ tasks[b].func.t = "raise"
\* The function of branch b returned a non-empty list.
Populated(b) ==
  tasks[b].status = "done" /\ tasks[b].func.t = "list" /\ tasks[b].func.v # <<>>
\* What the function of branch b contributes to a merged list.
Contribution(b) == IF tasks[b].func.t = "list" THEN tasks[b].func.v ELSE <<>>

\* The fields the Evidence and Synthesis phases fill still hold the values
\* the record was created with.
EvidenceAndSynthesisFieldsInitial ==
  /\ state.literature_evidence = EmptyList
  /\ state.case_database_evidence = EmptyList
  /\ state.imaging_findings = PyNone
  /\ state.critique_notes = PyNone
  /\ state.final_report = PyNone
  /\ state.triage_level = PyNone
  /\ state.drug_interaction_warnings = PyNone

\* C1: when the patient lookup returns not-found, run returns right after
\* the Foundation phase with the error set: no Evidence branch and no
\* Synthesis step is invoked and their fields keep their initial values.
C1_NotFoundReturnsAfterFoundation ==
  (pc = "returned" /\ Failed("EHR_Fetcher")) =>
    /\ state.error_message # PyNone
    /\ \A s \in EvidenceStepSet \cup SynthesisSteps : ~Invoked(s)
    /\ EvidenceAndSynthesisFieldsInitial

\* Some step of run can be taken: a sequential step is due, or gather can
\* resume, or one of its tasks can start or has a call to complete.
StepPossible ==
  \/ pc \in FoundationSteps \cup SynthesisSteps \cup {"evidence_tasks"}
  \/ /\ pc = "gather"
     /\ \/ GatherReady(tasks)
        \/ \E b \in EvidenceStepSet : tasks[b].status \in {"pending", "search", "fetch"}

\* C2: run never raises to its caller: from every state that is not the
\* return, a step of run is possible, no state has an exception leaving
\* run, and a returned record reports a failure of any step in its error
\* field.
C2_RunAlwaysReturns ==
  /\ pc # "raised"
  /\ pc # "returned" => StepPossible
  /\ (pc = "returned" /\ \E a \in AgentNames : Failed(a)) => state.error_message # PyNone

\* A returned run in which a Foundation step, two Evidence branches and two
\* Synthesis steps failed.
C2_Witness ==
  /\ pc = "returned"
  /\ Failed("EHR_Fetcher") /\ Failed("PubMedSearcher") /\ Failed("ImagingAnalyzer")
  /\ Failed("CritiqueAgent") /\ Failed("ReportSynthesizer")

\* C3: when an Evidence branch throws, every other launched branch still
\* ends and what it returned is in the record after the merge: the
\* literature evidence is what PubMed and OpenAlex returned, the case
\* evidence what the case search returned, the imaging findings what the
\* image analysis returned.
C3_BranchIsolation ==
  (PastEvidence /\ \E b \in EvidenceStepSet : Threw(b)) =>
    /\ \A b \in EvidenceStepSet : tasks[b].status \in {"none", "done"}
    /\ state.literature_evidence =
         PyList(Contribution("PubMedSearcher") \o Contribution("OpenAlexSearcher"))
    /\ state.case_database_evidence = PyList(Contribution("CaseSearcher"))
    /\ (tasks["ImagingAnalyzer"].status = "done" /\ ~Threw("ImagingAnalyzer"))
         => state.imaging_findings = tasks["ImagingAnalyzer"].func

\* PubMed threw; OpenAlex, the case search and the image analysis
\* delivered, and their results are in the record.
C3_Witness ==
  /\ PastEvidence
  /\ Threw("PubMedSearcher")
  /\ Populated("OpenAlexSearcher") /\ Populated("CaseSearcher")
  /\ tasks["ImagingAnalyzer"].status = "done" /\ ~Threw("ImagingAnalyzer")
  /\ state.literature_evidence = tasks["OpenAlexSearcher"].func
  /\ state.case_database_evidence = tasks["CaseSearcher"].func

\* C4: after the Evidence phase, literature_evidence and
\* case_database_evidence are lists, never null and never another type,
\* whichever branches failed.
C4_EvidenceFieldsAreLists ==
  PastEvidence =>
    /\ state.literature_evidence.t = "list"
    /\ state.case_database_evidence.t = "list"

\* Every search branch threw, and the fields are empty lists.
C4_Witness ==
  /\ PastEvidence
  /\ Threw("PubMedSearcher") /\ Threw("OpenAlexSearcher") /\ Threw("CaseSearcher")
  /\ state.literature_evidence = EmptyList
  /\ state.case_database_evidence = EmptyList

\* C5: no Evidence branch starts before both Foundation steps have ended;
\* no Synthesis step starts before every launched Evidence branch has
\* ended; the report starts after the critique has ended and the drug
\* check after the report has ended.
C5_PhaseOrdering ==
  /\ Invoked("EHR_Fetcher") => Finished("SymptomAnalyzer")
  /\ \A b \in EvidenceStepSet :
       (Invoked(b) \/ tasks[b].status # "none")
         => (Finished("SymptomAnalyzer") /\ Finished("EHR_Fetcher"))
  /\ \A s \in SynthesisSteps : \A b \in EvidenceStepSet :
       Invoked(s) => /\ tasks[b].status \in {"none", "done"}
                     /\ tasks[b].status = "done" => Finished(b)
                     /\ b # "ImagingAnalyzer" => Finished(b)
  /\ Invoked("ReportSynthesizer") => Finished("CritiqueAgent")
  /\ Invoked("DrugChecker") => Finished("ReportSynthesizer")

\* A run with an image went through all nine steps.
C5_Witness ==
  /\ pc = "returned"
  /\ \A s \in FoundationSteps \cup EvidenceStepSet \cup SynthesisSteps : Finished(s)
  /\ tasks["PubMedSearcher"].func = PubMedList(1)

\* C6: when symptom extraction throws, the wrapper re-raises and the run
\* stops: the patient lookup, every Evidence branch and every Synthesis
\* step are never invoked, and the record is returned with the error set.
C6_SymptomFailureStopsRun ==
  Failed("SymptomAnalyzer") =>
    /\ \A s \in {"EHR_Fetcher"} \cup EvidenceStepSet \cup SynthesisSteps : ~Invoked(s)
    /\ pc = "returned"
    /\ state.error_message # PyNone

\* PubMed threw while OpenAlex and the case search returned results, and
\* the run has returned.
C7_Scenario ==
  /\ pc = "returned"
  /\ Threw("PubMedSearcher")
  /\ Populated("OpenAlexSearcher")
  /\ Populated("CaseSearcher")

\* C7 as stated: in that scenario literature_evidence is the empty list,
\* the other two sources' results are in the record, and the Synthesis
\* steps ran.
C7_LiteratureEmptyAsStated ==
  C7_Scenario =>
    /\ state.literature_evidence = EmptyList
    /\ state.case_database_evidence = tasks["CaseSearcher"].func
    /\ \A s \in SynthesisSteps : Invoked(s)

\* C7 (amended): in that scenario literature_evidence holds exactly the
\* OpenAlex results, with no PubMed item, case_database_evidence holds the
\* case results, and the three Synthesis steps are invoked.
C7_LiteratureIsOpenAlexOnly ==
  C7_Scenario =>
    /\ state.literature_evidence = tasks["OpenAlexSearcher"].func
    /\ state.case_database_evidence = tasks["CaseSearcher"].func
    /\ \A s \in SynthesisSteps : Invoked(s)

\* The scenario of C7 is reached with the OpenAlex items in the record.
C7_Witness ==
  /\ C7_Scenario
  /\ state.literature_evidence = OpenAlexList(1)

\* The record fields other than error_message.
ResultFields == (DOMAIN DiagnosticState("", 0, PyNone, PyNone)) \ {"error_message"}

\* The field the safe default of a failed Synthesis step is assigned to.
DefaultTarget(step_name) == IF step_name = "CritiqueAgent" THEN {"critique_notes"} ELSE {}

\* C8: a failure of critique, report generation or the drug check never
\* leaves run as an exception: the error is recorded, every field set by
\* an earlier step keeps its value across the failing step, the remaining
\* Synthesis steps are invoked, and the record is returned.
C8_SynthesisFailureContained ==
  /\ [](/\ pc # "raised"
        /\ \A s \in SynthesisSteps : Failed(s) => state.error_message # PyNone
        /\ Failed("CritiqueAgent") => pc \in {"ReportSynthesizer", "DrugChecker", "returned"}
        /\ Failed("ReportSynthesizer") => pc \in {"DrugChecker", "returned"}
        /\ Failed("DrugChecker") => pc = "returned"
        /\ (pc = "returned" /\ \E s \in SynthesisSteps : Failed(s))
             => \A s \in SynthesisSteps : Invoked(s))
  /\ [][\A s \in SynthesisSteps :
          (pc = s /\ ~Failed(s) /\ Failed(s)') =>
             \A f \in ResultFields \ DefaultTarget(s) : state'[f] = state[f]]_vars

\* A returned run in which the critique and the drug check failed and the
\* report generated in between is in the record.
C8_Witness ==
  /\ pc = "returned"
  /\ Failed("CritiqueAgent") /\ Failed("DrugChecker")
  /\ state.final_report = PyStr(Str_report_considerations)
  /\ state.critique_notes = EmptyDict
  /\ Populated("CaseSearcher") /\ state.case_database_evidence = tasks["CaseSearcher"].func

\* C9: in every returned record, triage_level is set if and only if
\* final_report is set.
C9_TriageIffReport ==
  pc = "returned" => (state.triage_level # PyNone <=> state.final_report # PyNone)

\* Triage extraction as C10 states it: the trimmed text after the marker
\* when the last line, trailing whitespace removed, contains the marker,
\* and "Undetermined" otherwise.
StatedTriage(text) ==
  LET lines == Split(RStrip(text), Str_NL)
      last_line == lines[Len(lines)]
      at == Find(last_line, TRIAGE_MARKER)
  IN IF at # 0
     THEN Strip(SubSeq(last_line, at + Len(TRIAGE_MARKER), Len(last_line)))
     ELSE Undetermined

\* C10: for every report text, triage_level after the extraction is the
\* trimmed text after "TRIAGE_LEVEL:" when the last line contains the
\* marker, and "Undetermined" otherwise.
C10_TriageExtraction ==
  (pc = "triage_done" /\ response.t = "str") =>
    state.triage_level = PyStr(StatedTriage(response.v))

\* C11: once a step has set error_message, no later step overwrites it, so
\* the returned error names the first step that failed.
C11_ErrorSetOnce ==
  [][state.error_message # PyNone => state'.error_message = state.error_message]_vars

\* The keys of a patient record as the lookup returns it.
PatientFields == {PatientRow(1)[i][1] : i \in 1..Len(PatientRow(1))}

\* C12: patient_details is null or a patient record with every field of
\* the lookup result, in every state, also after a failed lookup.
C12_PatientDetailsAbsentOrFull ==
  \/ state.patient_details = PyNone
  \/ /\ state.patient_details.t = "dict"
     /\ DictKeys(state.patient_details) = PatientFields

\* An evidence item with a source identifier, a text and a confidence
\* between 0 and 1 (in hundredths).
WellFormedEvidenceItem(item) ==
  /\ item.t = "dict"
  /\ {Key("source_id"), Key("text"), Key("confidence")} \subseteq DictKeys(item)
  /\ DictGet(item, Key("confidence"), PyNone).t = "float"
  /\ DictGet(item, Key("confidence"), PyNone).v >= 0
  /\ DictGet(item, Key("confidence"), PyNone).v <= 100

\* C13: every element of literature_evidence and case_database_evidence
\* has a source identifier, a snippet text and a confidence in [0, 1].
C13_EvidenceItemsWellFormed ==
  \A f \in {"literature_evidence", "case_database_evidence"} :
    state[f].t = "list" =>
      \A i \in 1..Len(state[f].v) : WellFormedEvidenceItem(state[f].v[i])

\* The fields that hold the arguments of run.
InputFields == {"diagnosis_id", "patient_id", "symptoms_text", "image_data"}

\* C18: no step changes diagnosis_id, patient_id, symptoms_text or
\* image_data, so every returned record holds the values passed to run.
C18_InputFieldsKept ==
  /\ [](/\ state.diagnosis_id = "diag_1"
        /\ state.symptoms_text = PyStr(<<"symptoms text">>)
        /\ state.patient_id \in PatientIds
        /\ state.image_data \in ImageInputs)
  /\ [][\A f \in InputFields : state'[f] = state[f]]_vars

\* A returned run with an image for a patient without a row, in which the
\* lookup and the report generation failed and the drug check ran.
C18_Witness ==
  /\ pc = "returned"
  /\ state.patient_id = 3 /\ state.image_data = PyBytes(<<"jpeg">>)
  /\ Failed("EHR_Fetcher") /\ Failed("ReportSynthesizer") /\ Finished("DrugChecker")

\* run() is past the creation of the evidence tasks.
PastLaunch == pc \in {"gather", "returned"} \cup SynthesisSteps

\* C19: the image analysis is launched if and only if an image was
\* supplied, and without an image imaging_findings stays null.
C19_ImagingOnlyWithImage ==
  /\ (tasks["ImagingAnalyzer"].status # "none" \/ Invoked("ImagingAnalyzer"))
       => Truthy(state.image_data)
  /\ (PastLaunch /\ Truthy(state.image_data))
       => tasks["ImagingAnalyzer"].status # "none"
  /\ (pc = "returned" /\ Truthy(state.image_data)) => Invoked("ImagingAnalyzer")
  /\ ~Truthy(state.image_data) => state.imaging_findings = PyNone

\* One returned run with an image and findings, reached next to runs
\* without image whose findings are null.
C19_Witness ==
  /\ pc = "returned"
  /\ Truthy(state.image_data)
  /\ state.imaging_findings = PyDict(<< <<Key("analysis"), PyStr(<<"analysis">>)>> >>)

\* The symptoms the query builder was given.
GivenSymptoms == DictGet(state.structured_symptoms, Key("symptoms"), EmptyList).v

\* The name of a symptom.
NameOf(symptom) == DictGet(symptom, Key("name"), PyStr(<<>>)).v

\* The qualifiers of a symptom: the items of its qualifiers array, the
\* keys of qualifiers given as an object (a symptom whose qualifiers are one
\* string states no qualifier).
StatedQualifiers(symptom) ==
  LET qualifiers == DictGet(symptom, Key("qualifiers"), EmptyList)
  IN IF qualifiers.t \in {"list", "dict"} THEN IterItems(qualifiers).v ELSE <<>>

\* The keywords of high_value_map that some qualifier contains.
QualifierKeywords ==
  {k \in 1..Len(high_value_map) :
     \E i \in 1..Len(GivenSymptoms) :
       \E j \in 1..Len(StatedQualifiers(GivenSymptoms[i])) :
         Contains(Lower(StatedQualifiers(GivenSymptoms[i])[j].v), high_value_map[k][1])}

\* The keywords of high_value_map that are the name of some symptom.
NameKeywords ==
  {k \in 1..Len(high_value_map) :
     \E i \in 1..Len(GivenSymptoms) : Lower(NameOf(GivenSymptoms[i])) = high_value_map[k][1]}

\* Symptom i has a qualifier that contains a keyword of high_value_map.
HasHighValueQualifier(i) ==
  \E j \in 1..Len(StatedQualifiers(GivenSymptoms[i])) :
    \E k \in 1..Len(high_value_map) :
      Contains(Lower(StatedQualifiers(GivenSymptoms[i])[j].v), high_value_map[k][1])

\* The keywords of high_value_map that are the name of a symptom standing
\* before every symptom with a high-value qualifier.
LeadingNameKeywords ==
  {k \in 1..Len(high_value_map) :
     \E i \in 1..Len(GivenSymptoms) :
       /\ Lower(NameOf(GivenSymptoms[i])) = high_value_map[k][1]
       /\ \A h \in 1..i : ~HasHighValueQualifier(h)}

\* The Tier-2 phrases.
IsTier2Phrase(q) == Contains(q, Str_differential)

\* C14 as stated: whenever some qualifier is a high-value term, the query
\* is the mapped phrase of a high-value qualifier, never the Tier-2 phrase.
C14_QueryIsQualifierPhrase ==
  (pc = "query_done" /\ QualifierKeywords # {}) =>
    /\ response.t = "str"
    /\ response.v \in {high_value_map[k][2] : k \in QualifierKeywords}
    /\ ~IsTier2Phrase(response.v)

\* C14 (amended): whenever some qualifier is a high-value term, the query
\* is a Tier-1 mapped phrase and never the Tier-2 phrase: when a symptom
\* whose name is itself a high-value term comes before every symptom with a
\* high-value qualifier it is the phrase of that name, and otherwise it is
\* the phrase of a high-value qualifier.
C14_TierPrecedence ==
  (pc = "query_done" /\ QualifierKeywords # {}) =>
    /\ response.t = "str"
    /\ ~IsTier2Phrase(response.v)
    /\ IF LeadingNameKeywords # {}
       THEN response.v \in {high_value_map[k][2] : k \in LeadingNameKeywords}
       ELSE response.v \in {high_value_map[k][2] : k \in QualifierKeywords}

\* The example of the claim: rash with the qualifier slapped cheek, after
\* two plain symptoms, gives the phrase mapped to slapped cheek.
C14_Witness ==
  /\ pc = "query_done"
  /\ GivenSymptoms = <<Symptom(PyStr(Str_cough), EmptyList),
                        Symptom(PyStr(Str_fever), EmptyList),
                        Symptom(PyStr(Str_rash), PyList(<<PyStr(Str_slapped_cheek)>>))>>
  /\ response = PyStr(high_value_map[2][2])

\* The non-empty names of the given symptoms, in their order.
RECURSIVE NamesOf(_)
NamesOf(symptoms) ==
  IF symptoms = <<>> THEN <<>>
  ELSE (IF NameOf(Head(symptoms)) # <<>> THEN <<NameOf(Head(symptoms))>> ELSE <<>>)
         \o NamesOf(Tail(symptoms))

\* The Tier-2 phrase as C15 states it, for an age bucket.
StatedFallback(bucket) ==
  LET names == NamesOf(GivenSymptoms)
  IN bucket \o Str_differential
       \o Join(SubSeq(names, 1, IF Len(names) < 2 THEN Len(names) ELSE 2), <<" ">>)

\* C15: with no high-value match and at least one named symptom, the
\* query is "<bucket> differential diagnosis <names>" with up to two
\* symptom names in their order, pediatric exactly below 18.
C15_Tier2Fallback ==
  (pc = "query_done" /\ QualifierKeywords = {} /\ NameKeywords = {}
     /\ NamesOf(GivenSymptoms) # <<>>) =>
    IF Key("age") \in DictKeys(state.patient_details)
    THEN response = PyStr(StatedFallback(IF DictGet(state.patient_details, Key("age"), PyNone).v < 18
                                         THEN Str_pediatric ELSE Str_adult))
    ELSE response \in {PyStr(StatedFallback(Str_pediatric)), PyStr(StatedFallback(Str_adult))}

\* C16: match_high_value returns the first reference phrase whose ratio
\* with the lower-cased qualifier is above 0.8 and nothing when there is
\* none; "slapped cheek appearance" gives "slapped cheek" and "unrelated
\* term xyz" gives nothing.
C16_MatchHighValue ==
  pc = "match_done" =>
    /\ response # PyNone =>
         /\ \E n \in 1..Len(HIGH_VALUE_QUALIFIERS) :
              /\ response = PyStr(HIGH_VALUE_QUALIFIERS[n])
              /\ RatioAboveThreshold(Lower(GivenQualifier), HIGH_VALUE_QUALIFIERS[n])
              /\ \A m \in 1..(n - 1) :
                   ~RatioAboveThreshold(Lower(GivenQualifier), HIGH_VALUE_QUALIFIERS[m])
    /\ response = PyNone =>
         \A n \in 1..Len(HIGH_VALUE_QUALIFIERS) :
           ~RatioAboveThreshold(Lower(GivenQualifier), HIGH_VALUE_QUALIFIERS[n])
    /\ GivenQualifier = Str_slapped_cheek \o Str_appearance
         => response = PyStr(Str_slapped_cheek)
    /\ GivenQualifier = Str_unrelated_term_xyz => response = PyNone

\* The record of run r.
RecordOf(r) == IF suspended.diagnosis_id = r THEN suspended.state ELSE state

\* C17: two runs with different run ids on one workflow never read or write
\* each other's record: in every interleaving each run keeps its own record,
\* the record of a run changes only in a step that run takes, and that step
\* is the step the run takes when it executes alone.
C17_RunsIsolated ==
  [][\A r \in RunIds :
       /\ RecordOf(r)'.diagnosis_id = r
       /\ RecordOf(r)' # RecordOf(r) =>
            /\ Running = r
            /\ Running' = r
            /\ Next]_vars

\* The second run has returned, with a report and the error of a step of its
\* own, while the first run stands in gather with a search under way and no
\* error.
C17_Witness ==
  /\ suspended # PyNone
  /\ suspended.diagnosis_id = "diag_1"
  /\ suspended.pc = "gather"
  /\ suspended.tasks["OpenAlexSearcher"].status = "search"
  /\ suspended.state.patient_details = PyDict(PatientRow(1))
  /\ suspended.state.error_message = PyNone
  /\ pc = "returned"
  /\ state.diagnosis_id = "diag_2"
  /\ state.patient_details = PyDict(PatientRow(2))
  /\ state.error_message # PyNone
  /\ state.final_report # PyNone

\* C20: after log_step(diagnosis_id, message) returns, the most recently
\* inserted row of audit_log holds that diagnosis_id and that message,
\* whatever calls came before.
C20_LatestRowIsTheCall ==
  (log_step_call # PyNone /\ log_step_call.outcome = PyNone) =>
    LatestRow(audit_log) = [diagnosis_id |-> log_step_call.diagnosis_id,
                            message |-> log_step_call.message]

\* The qualifiers of the symptoms, in iteration order.
RECURSIVE QualifiersInOrder(_)
QualifiersInOrder(symptoms) ==
  IF symptoms = <<>> THEN <<>>
  ELSE StatedQualifiers(Head(symptoms)) \o QualifiersInOrder(Tail(symptoms))

\* The keyword of the first high-value qualifier in iteration order.
FirstQualifierKeyword ==
  LET qualifiers == QualifiersInOrder(GivenSymptoms)
      first == CHOOSE j \in 1..Len(qualifiers) :
                 /\ KeywordHit(Lower(qualifiers[j].v)) # 0
                 /\ \A i \in 1..(j - 1) : KeywordHit(Lower(qualifiers[i].v)) = 0
  IN KeywordHit(Lower(qualifiers[first].v))

\* C21: Tier 1 short-circuits on the first hit: with no symptom name that
\* is itself a high-value term, the query is the mapped phrase of the first
\* high-value qualifier in iteration order, and a high-value qualifier of a
\* later symptom never replaces it.
C21_FirstHitWins ==
  (pc = "query_done" /\ QualifierKeywords # {} /\ NameKeywords = {}) =>
    response = PyStr(high_value_map[FirstQualifierKeyword][2])

\* The Tier-1 phrases.
IsTier1Phrase(q) == \E k \in 1..Len(high_value_map) : q = high_value_map[k][2]

\* The terms match_high_value returns for the given qualifiers.
MatchedTerms ==
  LET qualifiers == QualifiersInOrder(GivenSymptoms)
  IN {match_high_value(qualifiers[j].v) : j \in 1..Len(qualifiers)} \ {PyNone}

\* The phrases high_value_map gives the matched terms.
MatchedPhrases ==
  {high_value_map[k][2] : k \in {n \in 1..Len(high_value_map) :
                                   PyStr(high_value_map[n][1]) \in MatchedTerms}}

\* C22: with no symptom name that is itself a high-value term, the builder
\* returns a Tier-1 phrase exactly when match_high_value returns a term for
\* some qualifier, and the phrase is the one mapped to a matched term.
C22_TierOneThroughMatcher ==
  (pc = "query_done" /\ NameKeywords = {}) =>
    /\ (response.t = "str" /\ IsTier1Phrase(response.v)) <=> MatchedTerms # {}
    /\ MatchedTerms # {} => response.v \in MatchedPhrases

\* The record fields branch b has written: a branch that threw wrote the
\* error field in its wrapper; results reach the record in the merge.
BranchWrites(b) == IF Threw(b) THEN {"error_message"} ELSE {}

\* C23: during the Evidence phase no record field is written by two
\* different branches: the step of a branch changes no field that another
\* branch has written, so the fields do not depend on the finishing order.
C23_BranchWritesDisjoint ==
  [][(pc = "gather" /\ pc' = "gather") =>
       \A f \in DOMAIN state :
         state'[f] # state[f] => \A b \in EvidenceStepSet : f \notin BranchWrites(b)]_vars

\* C24: once the Evidence phase is merged, literature_evidence is the PubMed
\* branch's results followed by the OpenAlex branch's results, each in the
\* order its branch returned them.
C24_LiteratureInLaunchOrder ==
  (pc \in SynthesisSteps \/ (pc = "returned" /\ Invoked("CritiqueAgent"))) =>
    state.literature_evidence =
      PyList(Contribution("PubMedSearcher") \o Contribution("OpenAlexSearcher"))

\* Both literature branches returned MaxResults items, PubMed by falling
\* and OpenAlex by rising item number, and the merge has run: the record
\* holds the PubMed items as returned, then the OpenAlex items as returned.
C24_Witness ==
  /\ pc = "CritiqueAgent"
  /\ MaxResults > 1
  /\ tasks["PubMedSearcher"].func =
       PyList([i \in 1..MaxResults |-> PubMedItem(MaxResults + 1 - i)])
  /\ tasks["OpenAlexSearcher"].func = OpenAlexList(MaxResults)
  /\ state.literature_evidence =
       PyList([i \in 1..MaxResults |-> PubMedItem(MaxResults + 1 - i)]
              \o OpenAlexList(MaxResults).v)

LiteratureSteps == {"PubMedSearcher", "OpenAlexSearcher"}

\* The structured symptoms hold a list of symptoms of which none has a name
\* (an empty list also).
NoSymptomName ==
  /\ PastLaunch
  /\ LET symptoms == DictGet(state.structured_symptoms, Key("symptoms"), EmptyList)
     IN /\ symptoms.t = "list"
        /\ \A i \in 1..Len(symptoms.v) :
             /\ symptoms.v[i].t = "dict"
             /\ ~Truthy(DictGet(symptoms.v[i], Key("name"), PyStr(<<>>)))

\* No qualifier of a symptom contains a high-value keyword.
NoHighValueQualifier ==
  LET symptoms == DictGet(state.structured_symptoms, Key("symptoms"), EmptyList)
  IN \A i \in 1..Len(symptoms.v) :
       LET qualifiers == DictGet(symptoms.v[i], Key("qualifiers"), EmptyList)
       IN /\ qualifiers.t = "list"
          /\ \A j \in 1..Len(qualifiers.v) :
               /\ qualifiers.v[j].t = "str"
               /\ KeywordHit(Lower(qualifiers.v[j].v)) = 0

\* A literature branch neither awaits its search backend nor fails, and
\* returns the empty list.
SearchSkipped(b) ==
  /\ tasks[b].status \in {"pending", "done"}
  /\ tasks[b].status = "done" => tasks[b].func = EmptyList /\ ~Failed(b)

\* C25 as stated: with no symptom or no symptom name the query is empty and
\* both literature branches return the empty list without calling their
\* search backend and without recording an error.
C25_NoNameSkipsSearch ==
  NoSymptomName =>
    /\ SmartSearchQuery(state.structured_symptoms, state.patient_details) = PyStr(<<>>)
    /\ \A b \in LiteratureSteps : SearchSkipped(b)

\* C25 (amended): with no symptom, or with no symptom name and no
\* high-value qualifier, the query is empty and both literature branches
\* return the empty list without calling their search backend and without
\* recording an error.
C25_EmptyQuerySkipsSearch ==
  (NoSymptomName /\ NoHighValueQualifier) =>
    /\ SmartSearchQuery(state.structured_symptoms, state.patient_details) = PyStr(<<>>)
    /\ \A b \in LiteratureSteps : SearchSkipped(b)

\* A run with one symptom without name and qualifier: both literature
\* branches are done with the empty list.
C25_Witness ==
  /\ pc = "CritiqueAgent"
  /\ state.structured_symptoms = PyDict(<< <<Key("symptoms"), PyList(<<Symptom(PyStr(<<>>), EmptyList)>>)>> >>)
  /\ \A b \in LiteratureSteps : tasks[b].status = "done" /\ tasks[b].func = EmptyList
  /\ state.literature_evidence = EmptyList
  /\ state.error_message = PyNone

\* The drug service is called and returns a list with a warning.
WarningsReturned ==
  /\ PotentialConditions(state.final_report) # <<>>
  /\ (IF Truthy(state.patient_details)
      THEN DictGet(state.patient_details, Key("medical_history"), PyStr(<<>>))
      ELSE PyStr(<<>>)).t = "str"
  /\ response.v # <<>>

\* C26: the drug-safety step sets drug_interaction_warnings exactly when
\* the drug checker returned at least one warning, and exactly then appends
\* the warnings section to final_report, the report text kept as prefix; it
\* changes no other result field, in particular not triage_level.
C26_DrugStepFrame ==
  [][pc = "DrugChecker" =>
       /\ IF WarningsReturned
          THEN /\ state'.drug_interaction_warnings = response
               /\ state'.final_report =
                    PyStr(state.final_report.v \o Str_safety_header \o WarningLines(response.v))
          ELSE /\ state'.drug_interaction_warnings = PyNone
               /\ state'.final_report = state.final_report
       /\ \A f \in ResultFields \ {"drug_interaction_warnings", "final_report"} :
            state'[f] = state[f]]_vars

\* The step has appended two warnings to a report with a triage level.
C26_Witness ==
  /\ pc = "returned"
  /\ response = PyList(<<"warning1", "warning2">>)
  /\ state.drug_interaction_warnings = response
  /\ state.triage_level = PyStr(<<"U","r","g","e","n","t">>)
  /\ state.final_report =
       PyStr(Str_report_considerations \o Str_safety_header \o WarningLines(response.v))

\* C27: the audit trail of a wrapped step is its START event followed by
\* exactly one of END (the step function returned) or ERROR with status
\* FAILURE (it threw): START alone is the trail of a step that is still
\* running, which is the sequential step the run stands at, awaiting its
\* executor call, or an evidence branch awaiting its backend, and no step
\* has both END and ERROR or a second START.
StepNames == AgentNames \ {"Orchestrator"}
TrailStarted == <<<<"START", "SUCCESS">>>>
TrailEnded == <<<<"START", "SUCCESS">>, <<"END", "SUCCESS">>>>
TrailFailed == <<<<"START", "SUCCESS">>, <<"ERROR", "FAILURE">>>>
C27_StartThenOneOutcome ==
  \A a \in StepNames :
    /\ log[a] \in {<<>>, TrailStarted, TrailEnded, TrailFailed}
    /\ log[a] = TrailStarted =>
         \/ pc = a /\ a \notin EvidenceStepSet \cup {"DrugChecker"}
         \/ /\ a \in EvidenceStepSet
            /\ pc = "gather"
            /\ tasks[a].status \in {"search", "fetch"}
    /\ pc \in {"returned", "responded"} => log[a] # TrailStarted
    /\ (a \in EvidenceStepSet /\ tasks[a].status = "done") =>
         log[a] = IF tasks[a].func.t = "raise" THEN TrailFailed ELSE TrailEnded
    /\ (pc = "returned" /\ state.final_report # PyNone) =>
         log["ReportSynthesizer"] = TrailEnded

\* A finished run in which one branch logged ERROR, another END, and the
\* sequential steps after them logged their outcome.
C27_Witness ==
  /\ pc = "returned"
  /\ log["PubMedSearcher"] = TrailFailed
  /\ log["OpenAlexSearcher"] = TrailEnded
  /\ log["ReportSynthesizer"] = TrailFailed
  /\ log["DrugChecker"] = TrailEnded

\* A finished run in which every collaborator call that was made returned:
\* the extraction, the lookup and the critique logged END, every launched
\* branch returned its list or findings, the report generation call, if it
\* was made, returned a text, and the drug-safety step did not fail.
CleanRun ==
  /\ pc = "returned"
  /\ \A a \in {"SymptomAnalyzer", "EHR_Fetcher", "CritiqueAgent"} : log[a] = TrailEnded
  /\ \A b \in EvidenceStepSet : tasks[b].status # "none" => log[b] = TrailEnded
  /\ state.error_message # ErrorInStep("ReportSynthesizer", "APIError")
  /\ log["ReportSynthesizer"] = TrailEnded => response.t = "str"
  /\ log["DrugChecker"] # TrailFailed

\* C28: a run in which no collaborator call fails returns a record without
\* error_message and with final_report, whatever the searches returned.
C28_CleanRunHasNoError ==
  CleanRun => (state.error_message = PyNone /\ state.final_report # PyNone)

\* The field run assigns the return value of a sequential value-returning
\* step to (lines 147, 148, 173).
FedField(a) ==
  CASE a = "SymptomAnalyzer" -> {"structured_symptoms"}
    [] a = "EHR_Fetcher" -> {"patient_details"}
    [] a = "CritiqueAgent" -> {"critique_notes"}
    [] OTHER -> {}

\* The step a fails in this step of the run.
FailsNow(a) == log[a] # TrailFailed /\ log'[a] = TrailFailed

\* C29: a step that fails changes error_message only. A failed report or
\* drug-safety step, and a failed evidence branch, leave every other field
\* as it was; the field a failed value-returning step feeds is assigned
\* that step's default ({} or []) and nothing else changes; after gather a
\* failed branch has contributed its default to the field it feeds.
C29_FailedStepFrame ==
  [][/\ \A a \in StepNames :
          FailsNow(a) =>
            /\ \A f \in (DOMAIN state \ {"error_message"}) \ FedField(a) :
                 state'[f] = state[f]
            /\ \A f \in FedField(a) : state'[f] = SafeDefault(a)
     /\ (pc = "gather" /\ pc' = "CritiqueAgent") =>
          /\ Threw("PubMedSearcher") =>
               state'.literature_evidence = PyList(Contribution("OpenAlexSearcher"))
          /\ Threw("OpenAlexSearcher") =>
               state'.literature_evidence = PyList(Contribution("PubMedSearcher"))
          /\ Threw("CaseSearcher") => state'.case_database_evidence = EmptyList
          /\ Threw("ImagingAnalyzer") => state'.imaging_findings = EmptyDict]_vars

\* A returned record whose critique failed and fed {} and whose drug-safety
\* step failed after the report and the triage level had been set.
C29_Witness ==
  /\ pc = "returned"
  /\ log["CritiqueAgent"] = TrailFailed
  /\ state.critique_notes = EmptyDict
  /\ log["DrugChecker"] = TrailFailed
  /\ state.final_report # PyNone
  /\ state.triage_level # PyNone

\* C30 as stated: the handler answers with the record, diagnosis_id and
\* timestamp added, exactly when error_message is empty; a record with
\* error_message is answered 400 with the error text as the only content,
\* also when the record has a report; a run that returned is never
\* answered 500.
C30_HandlerStatus ==
  pc = "responded" =>
    /\ response.status \in {200, 400}
    /\ response.status = 200 <=> state.error_message = PyNone
    /\ response.status = 200 =>
         /\ DOMAIN response.content = DOMAIN state \cup {"timestamp"}
         /\ \A f \in DOMAIN state : response.content[f] = state[f]
    /\ response.status = 400 =>
         response = [status |-> 400, detail |-> state.error_message]

====
